---- MODULE Spec2Model ----
(***************************************************************************)
(* cc-statusline: the compilation pipeline that turns a StatuslineConfig   *)
(* into a bash statusline script (generators/bash-generator.ts), the       *)
(* optimizer that rewrites the text (generators/bash-optimizer.ts), the    *)
(* caches (utils/cache-manager.ts) and the run-time behaviour of the       *)
(* emitted script.                                                         *)
(*                                                                         *)
(* Text is a sequence of atoms (strings).  An atom is a lexical piece of   *)
(* shell text: a bracket, a quote, "$", an identifier piece, or a whole    *)
(* line that no rewriting rule looks into.  Consecutive word atoms form    *)
(* one identifier ("total_tokens" followed by "_x" is total_tokens_x).     *)
(***************************************************************************)
EXTENDS Integers, Sequences, FiniteSets, TLC

VARIABLES
    text, result, op,                        \* optimizer: input, output, last operation
    clock, memoryCache, first, second, stage, \* generator: two calls of generateBashStatusline
    time, fileCache, served,                 \* emitted script: the ccusage file cache
    run,                                     \* emitted script: one run of the display code
    rate,                                    \* emitted script: the rate limiter over invocations
    validation,                              \* validateConfig: one call
    retry,                                   \* withRetry: one call
    install,                                 \* installer: the files and the steps taken
    sys                                      \* emitted script: the system-metrics cache file

optVars == <<text, result, op>>
genVars == <<clock, memoryCache, first, second, stage>>
fileVars == <<time, fileCache, served>>
runVars == <<run>>
moreVars == <<rate, validation, retry, install, sys>>
vars == <<text, result, op, clock, memoryCache, first, second, stage,
          time, fileCache, served, run, rate, validation, retry, install, sys>>

\* no lookup made at the current time
NotServed == [kind |-> "none", had |-> FALSE, age |-> 0, refresh |-> "none", value |-> 0]

NoEntry == [present |-> FALSE, createdAt |-> 0]

FileIdle ==
    /\ time = 0
    /\ fileCache = NoEntry
    /\ served = NotServed

\* no script running
NotRunning ==
    [program |-> <<>>, pc |-> 0, env |-> {}, skip |-> 0,
     content_displayed |-> 0, printed |-> FALSE, newlines |-> {}]

RunIdle == run = NotRunning

\* the rate limiter: no invocation made
NoInvocation ==
    [exit |-> "none", status |-> 0, at |-> 0, before |-> -1, read |-> FALSE,
     write |-> "none"]

NoRate == [clock |-> 0, file |-> -1, tmp |-> -1, last |-> NoInvocation, prev |-> -1]

NoResult == [isValid |-> FALSE, errors |-> <<>>, warnings |-> <<>>]

NoValidation == [phase |-> "idle", config |-> [isObject |-> FALSE], result |-> NoResult]

NoRetry ==
    [phase |-> "idle", maxRetries |-> 0, retryIf |-> "none", attempt |-> 0,
     calls |-> 0, successes |-> 0, thrown |-> <<>>, value |-> "", error |-> <<>>]

NoFile == [state |-> "missing", valid |-> FALSE,
           value |-> [t |-> "null", str |-> <<>>, num |-> 0, obj |-> <<>>, extra |-> <<>>]]
NoInstall ==
    [phase |-> "idle", entry |-> "", doInstall |-> FALSE, scriptName |-> "",
     dir |-> FALSE, script |-> [exists |-> FALSE, mode |-> 0, content |-> <<>>],
     before |-> NoFile, settings |-> NoFile, log |-> <<>>, result |-> ""]

NoSys == [phase |-> "idle", clock |-> 0, ttl |-> 0, path |-> -1,
          inodes |-> <<>>, proc |-> <<>>]

RateIdle == rate = NoRate

ValidationIdle == validation = NoValidation

RetryIdle == retry = NoRetry

InstallIdle == install = NoInstall

SysIdle == sys = NoSys

MoreIdle ==
    /\ RateIdle
    /\ ValidationIdle
    /\ RetryIdle
    /\ InstallIdle
    /\ SysIdle

----------------------------------------------------------------------------
(* Sequence helpers *)

\* F(v): the value v is computed once and then handed to F
Bind(v, F(_)) == CHOOSE r \in {F(x) : x \in {v}} : TRUE

\* f[lo] \o ... \o f[hi]
RECURSIVE ConcatRange(_, _, _)
ConcatRange(f, lo, hi) ==
    IF lo > hi THEN <<>>
    ELSE IF lo = hi THEN f[lo]
    ELSE LET mid == (lo + hi) \div 2
         IN  ConcatRange(f, lo, mid) \o ConcatRange(f, mid + 1, hi)

\* the concatenation of a sequence of sequences
Flatten(ss) == Bind(ss, LAMBDA f : ConcatRange(f, 1, Len(f)))

\* the last position of the line that starts at position j (a line starts
\* at position 1 and at every "\n")
RECURSIVE LineEnd(_, _)
LineEnd(t, j) ==
    IF j >= Len(t) \/ t[j + 1] = "\n" THEN j ELSE LineEnd(t, j + 1)

\* the text with Rewrite applied to each of its lines that holds an atom
\* of starts; the other lines are kept as they are
PerLine(Rewrite(_), starts, input) ==
    Bind(input, LAMBDA t :
        Flatten([i \in 1..Len(t) |->
                    IF i = 1 \/ t[i] = "\n"
                    THEN Bind(SubSeq(t, i, LineEnd(t, i)), LAMBDA l :
                             IF \E k \in 1..Len(l) : l[k] \in starts
                             THEN Rewrite(l) ELSE l)
                    ELSE <<>>]))

Count(t, a) == Cardinality({i \in 1..Len(t) : t[i] = a})

Contains(t, a) == \E i \in 1..Len(t) : t[i] = a

\* p occurs in t starting at position i
MatchAt(t, i, p) ==
    /\ i >= 1
    /\ i + Len(p) - 1 <= Len(t)
    /\ \A k \in 1..Len(p) : t[i + k - 1] = p[k]

ContainsSeq(t, p) == \E i \in 1..Len(t) : MatchAt(t, i, p)

\* the index of the first occurrence of atom a in t (0 when absent)
IndexOf(t, a) ==
    IF Contains(t, a) THEN CHOOSE i \in 1..Len(t) : t[i] = a /\ \A j \in 1..(i-1) : t[j] # a
    ELSE 0

----------------------------------------------------------------------------
(* bash-optimizer.ts: the tables, as the tests of the repository state them *)

\* COMPACT_VARIABLES: long identifier -> alias
COMPACT_VARIABLES ==
    [ current_directory_path |-> "cwd",
      current_dir            |-> "cwd",
      home_directory         |-> "home",
      git_branch_name        |-> "git_branch",
      is_git_repository      |-> "is_git_repo",
      git_cache_file         |-> "git_cache",
      session_percentage     |-> "pct",
      total_tokens           |-> "tot_tokens",
      tokens_per_minute      |-> "tpm",
      cost_per_hour          |-> "cost_ph",
      use_color_flag         |-> "use_color",
      color_prefix           |-> "clr_pre",
      color_suffix           |-> "clr_suf",
      cache_file_path        |-> "cache_file" ]

LongNames == DOMAIN COMPACT_VARIABLES

Aliases == {COMPACT_VARIABLES[n] : n \in LongNames}

\* identifier pieces: the listed names, their aliases, other variable names
\* and pieces that extend an identifier to its left ("my_") or right ("_x")
WordAtoms ==
    LongNames \cup Aliases \cup
    {"cached_result", "var", "my_", "_x", "cost_usd", "content_displayed"}

IsWord(a) == a \in WordAtoms

\* BUILTIN_REPLACEMENTS: the direct (exact text) rules, pattern -> replacement
BUILTIN_REPLACEMENTS ==
    << [pattern     |-> <<"$(date +%s)">>,
        replacement |-> <<"$", "{", "EPOCHSECONDS:-", "$(date +%s)", "}">>],
       [pattern     |-> <<"[", " ", "\"", "$(command -v jq)", "\"", " ", "]">>,
        replacement |-> <<"command -v jq >/dev/null 2>&1">>],
       [pattern     |-> <<"[", " ", "\"", "$(command -v git)", "\"", " ", "]">>,
        replacement |-> <<"command -v git >/dev/null 2>&1">>],
       [pattern     |-> <<"[", " ", "\"", "$(which jq)", "\"", " ", "]">>,
        replacement |-> <<"command -v jq >/dev/null 2>&1">>],
       [pattern     |-> <<"$(cat \"$file\")">>,
        replacement |-> <<"$(<\"$file\")">>],
       [pattern     |-> <<"[", " ", "$? -eq 0", " ", "]">>,
        replacement |-> <<"((! $?))">>] >>

----------------------------------------------------------------------------
(* bash-optimizer.ts, pass 1: identifier compaction *)

\* number of consecutive word atoms of t from position j on
RECURSIVE WordRun(_, _)
WordRun(t, j) ==
    IF j <= Len(t) /\ IsWord(t[j]) THEN 1 + WordRun(t, j + 1) ELSE 0

NoRule == [len |-> 0, out |-> <<>>]

\* CompactAt without the whole-identifier conditions: a listed name is
\* rewritten wherever it follows "$" or precedes "="
CompactAtPrefix(t, i) ==
    IF /\ MatchAt(t, i, <<"$", "{">>)
       /\ i + 3 <= Len(t)
       /\ t[i + 2] \in LongNames
       /\ t[i + 3] = "}"
    THEN [len |-> 4, out |-> <<"$", COMPACT_VARIABLES[t[i + 2]]>>]
    ELSE IF /\ t[i] = "$"
            /\ i + 1 <= Len(t)
            /\ t[i + 1] \in LongNames
    THEN [len |-> 2, out |-> <<"$", COMPACT_VARIABLES[t[i + 1]]>>]
    ELSE IF /\ t[i] \in LongNames
            /\ i + 1 <= Len(t)
            /\ t[i + 1] = "="
    THEN [len |-> 2, out |-> <<COMPACT_VARIABLES[t[i]], "=">>]
    ELSE NoRule

\* the reference or assignment of a listed name that starts at position i:
\* ${name} and $name become $alias, name= becomes alias=; the name must be
\* the whole identifier
CompactAt(t, i) ==
    IF /\ MatchAt(t, i, <<"$", "{">>)
       /\ i + 3 <= Len(t)
       /\ t[i + 2] \in LongNames
       /\ t[i + 3] = "}"
    THEN [len |-> 4, out |-> <<"$", COMPACT_VARIABLES[t[i + 2]]>>]
    ELSE IF /\ t[i] = "$"
            /\ i + 1 <= Len(t)
            /\ t[i + 1] \in LongNames
            /\ WordRun(t, i + 1) = 1
    THEN [len |-> 2, out |-> <<"$", COMPACT_VARIABLES[t[i + 1]]>>]
    ELSE IF /\ t[i] \in LongNames
            /\ i + 1 <= Len(t)
            /\ t[i + 1] = "="
            /\ (i = 1 \/ ~IsWord(t[i - 1]))
    THEN [len |-> 2, out |-> <<COMPACT_VARIABLES[t[i]], "=">>]
    ELSE NoRule

RECURSIVE CompactFrom(_, _)
CompactFrom(t, i) ==
    IF i > Len(t) THEN <<>>
    ELSE LET m == CompactAt(t, i)
         IN  IF m.len > 0 THEN m.out \o CompactFrom(t, i + m.len)
             ELSE <<t[i]>> \o CompactFrom(t, i + 1)

\* no rule looks across a line break: the text is rewritten line by line;
\* a rule of this pass starts at "$" or at a listed name
CompactLine(l) == CompactFrom(l, 1)

applyCompactVariables(t, compactVariables) ==
    IF ~compactVariables THEN t ELSE PerLine(CompactLine, {"$"} \cup LongNames, t)

----------------------------------------------------------------------------
(* bash-optimizer.ts, pass 2: idiom substitution *)

\* a direct rule that never skips: the pattern is replaced even inside its
\* own replacement
InTargetFormNever(t, i, r) == FALSE

\* the occurrence of r.pattern at position i lies inside an occurrence of
\* r.replacement: the construct is already in the target form
InTargetForm(t, i, r) ==
    \E k \in 1..Len(r.replacement) :
        /\ MatchAt(r.replacement, k, r.pattern)
        /\ MatchAt(t, i - k + 1, r.replacement)

DirectRulesAt(t, i) ==
    {k \in 1..Len(BUILTIN_REPLACEMENTS) :
        /\ MatchAt(t, i, BUILTIN_REPLACEMENTS[k].pattern)
        /\ ~InTargetForm(t, i, BUILTIN_REPLACEMENTS[k])}

DirectAt(t, i) ==
    IF DirectRulesAt(t, i) = {} THEN NoRule
    ELSE LET k == CHOOSE k \in DirectRulesAt(t, i) : \A j \in DirectRulesAt(t, i) : k <= j
             r == BUILTIN_REPLACEMENTS[k]
         IN  [len |-> Len(r.pattern), out |-> r.replacement]

\* the test rule without its guards: any "[ -z ... ]" is rewritten, also
\* inside [[ ... ]]
TestAtNaive(t, i) ==
    IF /\ MatchAt(t, i, <<"[", " ">>)
       /\ i + 3 <= Len(t)
       /\ t[i + 2] \in {"-z", "-n"}
       /\ t[i + 3] = " "
    THEN LET quoted == MatchAt(t, i + 4, <<"\"", "$">>)
             bare   == MatchAt(t, i + 4, <<"$">>)
             from   == IF quoted THEN i + 6 ELSE i + 5
             n      == WordRun(t, from)
             tail   == IF quoted THEN <<"\"", " ", "]">> ELSE <<" ", "]">>
             last   == from + n + Len(tail) - 1
             name   == SubSeq(t, from, from + n - 1)
         IN  IF /\ (quoted \/ bare)
                /\ n > 0
                /\ MatchAt(t, from + n, tail)
             THEN [len |-> last - i + 1,
                   out |-> <<"[", "[", " ">>
                           \o (IF t[i + 2] = "-z" THEN <<"!", " ">> ELSE <<>>)
                           \o <<"$">> \o name \o <<" ", "]", "]">>]
             ELSE NoRule
    ELSE NoRule

\* [ -z "$v" ], [ -z $v ], [ -n "$v" ], [ -n $v ] at position i, v an identifier;
\* a bracket that is part of [[ ... ]] is left alone
TestAt(t, i) ==
    IF /\ MatchAt(t, i, <<"[", " ">>)
       /\ i + 3 <= Len(t)
       /\ t[i + 2] \in {"-z", "-n"}
       /\ t[i + 3] = " "
       /\ (i = 1 \/ t[i - 1] # "[")
    THEN LET quoted == MatchAt(t, i + 4, <<"\"", "$">>)
             bare   == MatchAt(t, i + 4, <<"$">>)
             from   == IF quoted THEN i + 6 ELSE i + 5
             n      == WordRun(t, from)
             tail   == IF quoted THEN <<"\"", " ", "]">> ELSE <<" ", "]">>
             last   == from + n + Len(tail) - 1
             name   == SubSeq(t, from, from + n - 1)
         IN  IF /\ (quoted \/ bare)
                /\ n > 0
                /\ MatchAt(t, from + n, tail)
                /\ (last = Len(t) \/ t[last + 1] # "]")
             THEN [len |-> last - i + 1,
                   out |-> <<"[", "[", " ">>
                           \o (IF t[i + 2] = "-z" THEN <<"!", " ">> ELSE <<>>)
                           \o <<"$">> \o name \o <<" ", "]", "]">>]
             ELSE NoRule
    ELSE NoRule

BuiltinAt(t, i) ==
    IF DirectAt(t, i).len > 0 THEN DirectAt(t, i) ELSE TestAt(t, i)

RECURSIVE BuiltinFrom(_, _)
BuiltinFrom(t, i) ==
    IF i > Len(t) THEN <<>>
    ELSE LET m == BuiltinAt(t, i)
         IN  IF m.len > 0 THEN m.out \o BuiltinFrom(t, i + m.len)
             ELSE <<t[i]>> \o BuiltinFrom(t, i + 1)

BuiltinLine(l) == BuiltinFrom(l, 1)

\* the atoms a rule of this pass starts at
BuiltinStarts ==
    {"["} \cup {BUILTIN_REPLACEMENTS[k].pattern[1] : k \in 1..Len(BUILTIN_REPLACEMENTS)}

applyBuiltinReplacements(t, useBuiltins) ==
    IF ~useBuiltins THEN t ELSE PerLine(BuiltinLine, BuiltinStarts, t)

----------------------------------------------------------------------------
(* bash-optimizer.ts, pass 3: blank lines.  "\n" is a line break; a run  *)
(* of three or more line breaks is cut to two.                              *)

normalizeWhitespace(input) ==
    Bind(input, LAMBDA t :
        Flatten([i \in 1..Len(t) |->
                    IF i >= 3 /\ t[i] = "\n" /\ t[i - 1] = "\n" /\ t[i - 2] = "\n"
                    THEN <<>>
                    ELSE <<t[i]>>]))

----------------------------------------------------------------------------
(* bash-optimizer.ts: validateOptimizations and optimizeBashCode *)

QuoteBalance(t) == Count(t, "\"") % 2

BracketBalance(t) ==
    [b \in {"[", "{", "("} |->
        Count(t, b) - Count(t, CASE b = "[" -> "]" [] b = "{" -> "}" [] OTHER -> ")")]

TripleBracket(t) == ContainsSeq(t, <<"[", "[", "[">>)

BlockingAtoms == {"sleep 5"}

Blocking(t) == \E a \in BlockingAtoms : Contains(t, a)

Findings(original, optimized) ==
    {f \in { [category |-> "syntax", severity |-> "high", message |-> "quote balance"],
             [category |-> "syntax", severity |-> "high", message |-> "bracket balance"],
             [category |-> "syntax", severity |-> "high", message |-> "nested test brackets"],
             [category |-> "performance", severity |-> "medium", message |-> "blocking call"] } :
        \/ f.message = "quote balance" /\ QuoteBalance(original) # QuoteBalance(optimized)
        \/ f.message = "bracket balance" /\ BracketBalance(original) # BracketBalance(optimized)
        \/ f.message = "nested test brackets" /\ TripleBracket(optimized) /\ ~TripleBracket(original)
        \/ f.message = "blocking call" /\ Blocking(optimized) /\ ~Blocking(original)}

validateOptimizations(original, optimized) ==
    LET fs == Findings(original, optimized)
    IN  [isValid  |-> fs = {},
         issues   |-> fs,
         severity |-> IF \E f \in fs : f.severity = "high" THEN "high"
                      ELSE IF \E f \in fs : f.severity = "medium" THEN "medium"
                      ELSE "low"]

\* the three passes in their fixed order
Passes(t, compactVariables, useBuiltins) ==
    normalizeWhitespace(
        applyBuiltinReplacements(
            applyCompactVariables(t, compactVariables), useBuiltins))

optimizeWith(input, compactVariables, useBuiltins) ==
    Bind(input, LAMBDA t :
        Bind(Passes(t, compactVariables, useBuiltins), LAMBDA candidate :
            IF validateOptimizations(t, candidate).severity = "high"
            THEN t ELSE candidate))

optimizeBashCode(t) == optimizeWith(t, TRUE, TRUE)

----------------------------------------------------------------------------
(* The optimizer applied to bounded inputs: texts made of at most           *)
(* MaxSnippets snippets.                                                    *)

MaxSnippets == 2

Snippets ==
    { <<"[", " ", "-z", " ", "\"", "$", "cached_result", "\"", " ", "]">>,
      <<"[", " ", "-n", " ", "\"", "$", "var", "\"", " ", "]">>,
      <<"[", " ", "-z", " ", "$", "cached_result", " ", "]">>,
      <<"[", " ", "-n", " ", "$", "total_tokens", " ", "]">>,
      <<"[", "[", " ", "-z", " ", "\"", "$", "cached_result", "\"", " ", "]", "]">>,
      <<"[", "[", " ", "-n", " ", "$", "var", " ", "]", "]">>,
      <<"[", "[", " ", "!", " ", "$", "cached_result", " ", "]", "]">>,
      <<"[">>, <<"]">>, <<" ">>, <<"\"">>, <<"\n">>,
      <<"\n", "\n", "\n">>,
      <<"$(date +%s)">>,
      <<"$", "{", "EPOCHSECONDS:-", "$(date +%s)", "}">>,
      <<"[", " ", "\"", "$(command -v jq)", "\"", " ", "]">>,
      <<"[", " ", "$? -eq 0", " ", "]">>,
      <<"current_directory_path", "=", "\"", "/x", "\"">>,
      <<"\"", "$", "{", "current_directory_path", "}", "\"">>,
      <<"$", "total_tokens">>,
      <<"$", "current_dir">>,
      <<"$", "current_directory_path", " ">>,
      <<"$", "total_tokens", "_x">>,
      <<"$", "{", "total_tokens", "_x", "}">>,
      <<"my_", "total_tokens", "=">>,
      <<"total_tokens", "=">>,
      <<"cost_per_hour", ":">>,
      <<"_x">>, <<"=">>,
      <<"echo hello">> }

RECURSIVE Concats(_)
Concats(k) ==
    IF k = 0 THEN {<<>>}
    ELSE LET shorter == Concats(k - 1)
         IN  shorter \cup {p \o s : p \in shorter, s \in Snippets}

OptInputs == Concats(MaxSnippets)

\* no call of generateBashStatusline made yet
NoCall ==
    [config |-> [features |-> <<>>, theme |-> "minimal", colors |-> FALSE,
                 ccusageIntegration |-> FALSE, customEmojis |-> FALSE,
                 logging |-> FALSE, refreshRate |-> 0],
     script |-> <<>>, at |-> 0, hit |-> FALSE]

GenIdle ==
    /\ clock = 0
    /\ memoryCache = {}
    /\ first = NoCall
    /\ second = NoCall
    /\ stage = "idle"

InitOpt ==
    /\ text \in OptInputs
    /\ result = <<>>
    /\ op = [fn |-> "none", on |-> TRUE]
    /\ GenIdle
    /\ FileIdle
    /\ RunIdle
    /\ MoreIdle

\* applyCompactVariables(text, {compactVariables: on})
OptCompact(on) ==
    /\ op.fn = "none"
    /\ result' = applyCompactVariables(text, on)
    /\ op' = [fn |-> "compact", on |-> on]
    /\ UNCHANGED <<text, genVars, fileVars, runVars, moreVars>>

\* applyBuiltinReplacements(text, {useBuiltins: on})
OptBuiltin(on) ==
    /\ op.fn = "none"
    /\ result' = applyBuiltinReplacements(text, on)
    /\ op' = [fn |-> "builtin", on |-> on]
    /\ UNCHANGED <<text, genVars, fileVars, runVars, moreVars>>

\* optimizeBashCode(text)
OptOptimize ==
    /\ op.fn = "none"
    /\ result' = optimizeBashCode(text)
    /\ op' = [fn |-> "optimize", on |-> TRUE]
    /\ UNCHANGED <<text, genVars, fileVars, runVars, moreVars>>

\* the optimized text is optimized a second time
OptAgain ==
    /\ op.fn = "optimize"
    /\ text' = result
    /\ result' = optimizeBashCode(result)
    /\ op' = [fn |-> "again", on |-> TRUE]
    /\ UNCHANGED <<genVars, fileVars, runVars, moreVars>>

NextOpt ==
    \/ \E on \in BOOLEAN : OptCompact(on)
    \/ \E on \in BOOLEAN : OptBuiltin(on)
    \/ OptOptimize
    \/ OptAgain

SpecOpt == InitOpt /\ [][NextOpt]_vars

----------------------------------------------------------------------------
(* Claims about the optimizer (checked under SpecOpt) *)

\* a single-bracket emptiness test starts at position i of t: [ -z "$v" ],
\* [ -z $v ], [ -n "$v" ] or [ -n $v ], v an identifier, the brackets not
\* part of [[ or ]]
SingleTestAt(t, i) ==
    \E flag \in {"-z", "-n"}, quoted \in BOOLEAN, k \in 1..Len(t) :
        LET head == <<"[", " ", flag, " ">> \o (IF quoted THEN <<"\"", "$">> ELSE <<"$">>)
            tail == IF quoted THEN <<"\"", " ", "]">> ELSE <<" ", "]">>
            from == i + Len(head)
            last == from + k + Len(tail) - 1
        IN  /\ MatchAt(t, i, head)
            /\ from + k - 1 <= Len(t)
            /\ \A j \in from..(from + k - 1) : IsWord(t[j])
            /\ MatchAt(t, from + k, tail)
            /\ (i = 1 \/ t[i - 1] # "[")
            /\ (last = Len(t) \/ t[last + 1] # "]")

SingleTest(flag, quoted, v) ==
    <<"[", " ", flag, " ">>
    \o (IF quoted THEN <<"\"", "$", v, "\"">> ELSE <<"$", v>>)
    \o <<" ", "]">>

DoubleForm(flag, v) ==
    <<"[", "[", " ">> \o (IF flag = "-z" THEN <<"!", " ">> ELSE <<>>) \o <<"$", v, " ", "]", "]">>

TestVars == {"cached_result", "var", "total_tokens"}

\* C4: with builtins enabled applyBuiltinReplacements leaves no single-bracket
\* emptiness test behind, turns [ -z "$v" ] and [ -z $v ] into [[ ! $v ]] and
\* [ -n "$v" ] and [ -n $v ] into [[ $v ]], returns a test that is already
\* written with double brackets unchanged, and never introduces "[[[".
C4_BuiltinTests ==
    (op.fn = "builtin" /\ op.on) =>
        /\ \A i \in 1..Len(result) : ~SingleTestAt(result, i)
        /\ \A flag \in {"-z", "-n"}, quoted \in BOOLEAN, v \in TestVars :
              /\ text = SingleTest(flag, quoted, v) => result = DoubleForm(flag, v)
              /\ text = <<"[">> \o SingleTest(flag, quoted, v) \o <<"]">> => result = text
        /\ ~TripleBracket(text) => ~TripleBracket(result)

C4_Witness ==
    /\ op.fn = "builtin" /\ op.on
    /\ SingleTestAt(text, 1)
    /\ ContainsSeq(text, <<"[", "[", " ", "-z", " ", "\"", "$", "cached_result", "\"", " ", "]", "]">>)
    /\ ContainsSeq(result, <<"[", "[", " ", "!", " ", "$", "cached_result", " ", "]", "]">>)
    /\ result # text

\* a listed long name is referenced or assigned at position i of t, as a whole
\* identifier: name=, $name or ${name}
LongFormAt(t, i) ==
    \/ /\ t[i] \in LongNames
       /\ i + 1 <= Len(t) /\ t[i + 1] = "="
       /\ (i = 1 \/ ~IsWord(t[i - 1]))
    \/ /\ t[i] = "$"
       /\ i + 1 <= Len(t) /\ t[i + 1] \in LongNames
       /\ (i + 2 > Len(t) \/ ~IsWord(t[i + 2]))
    \/ /\ t[i] = "$"
       /\ i + 3 <= Len(t) /\ t[i + 1] = "{" /\ t[i + 2] \in LongNames /\ t[i + 3] = "}"

\* the occurrences of a listed name inside a longer identifier
PartialNames(t) ==
    {i \in 1..Len(t) :
        /\ t[i] \in LongNames
        /\ \/ i > 1 /\ IsWord(t[i - 1])
           \/ i < Len(t) /\ IsWord(t[i + 1])}

\* C5: with compaction enabled no assignment (name=), bare reference ($name)
\* or braced reference (${name}) of a listed long identifier remains and all
\* three forms get the same alias; identifiers that only contain a listed name
\* are not rewritten; with compaction disabled the text is returned unchanged.
C5_CompactVariables ==
    op.fn = "compact" =>
        /\ ~op.on => result = text
        /\ op.on =>
              /\ \A i \in 1..Len(result) : ~LongFormAt(result, i)
              /\ Cardinality(PartialNames(result)) = Cardinality(PartialNames(text))
              /\ \A n \in LongNames :
                    /\ text = <<n, "=">> => result = <<COMPACT_VARIABLES[n], "=">>
                    /\ text = <<"$", n>> => result = <<"$", COMPACT_VARIABLES[n]>>
                    /\ text = <<"\"", "$", "{", n, "}", "\"">>
                          => result = <<"\"", "$", COMPACT_VARIABLES[n], "\"">>
              /\ text = <<"current_directory_path", "=", "\"", "/x", "\"",
                          "\"", "$", "{", "current_directory_path", "}", "\"">>
                    => result = <<"cwd", "=", "\"", "/x", "\"", "\"", "$", "cwd", "\"">>

C5_Witness ==
    /\ op.fn = "compact" /\ op.on
    /\ text = <<"$", "total_tokens", "$", "total_tokens", "_x">>
    /\ result = <<"$", "tot_tokens", "$", "total_tokens", "_x">>

\* the variables a text refers to as $name or ${name} (name the whole
\* identifier)
RefNames(t) ==
    {t[i + 1] : i \in {j \in 1..(Len(t) - 1) :
                         t[j] = "$" /\ IsWord(t[j + 1]) /\ WordRun(t, j + 1) = 1}}
    \cup
    {t[i + 2] : i \in {j \in 1..(Len(t) - 3) :
                         /\ MatchAt(t, j, <<"$", "{">>)
                         /\ IsWord(t[j + 2])
                         /\ t[j + 3] = "}"}}

\* C19: compaction never merges two distinct variables: two listed names
\* have two aliases, so a text refers to as many different variables after
\* compaction as before it.
C19_DistinctNamesStayDistinct ==
    (op.fn = "compact" /\ op.on) =>
        Cardinality(RefNames(result)) = Cardinality(RefNames(text))

\* C6: optimizeBashCode is idempotent: optimizing an optimized text again
\* returns it unchanged (text holds the once-optimized input of the second call).
C6_Idempotent ==
    op.fn = "again" => result = text

C6_Witness ==
    /\ op.fn = "again"
    /\ ContainsSeq(text, <<"$", "{", "EPOCHSECONDS:-", "$(date +%s)", "}">>)
    /\ ContainsSeq(text, <<"[", "[", " ", "$", "var", " ", "]", "]">>)
    /\ result = text

----------------------------------------------------------------------------
(* StatuslineConfig (cli/prompts.ts) and the feature flags computed by       *)
(* generateBashStatusline.  refreshRate = 0 stands for a configuration       *)
(* without systemMonitoring.                                                 *)

Themes == {"minimal", "detailed", "compact"}

\* an order that renders the usage metrics before the system metrics
featurePriorityUsageFirst ==
    <<"directory", "git", "model", "usage", "session", "tokens", "burnrate",
      "cpu", "memory", "load">>

featurePriority ==
    <<"directory", "git", "model", "cpu", "memory", "load",
      "usage", "session", "tokens", "burnrate">>

Has(config, f) == \E i \in 1..Len(config.features) : config.features[i] = f

hasGit(config) == Has(config, "git")

hasUsage(config) ==
    \E f \in {"usage", "session", "tokens", "burnrate",
              "cache", "projections", "context", "alerts"} : Has(config, f)

hasSystem(config) == \E f \in {"cpu", "memory", "load"} : Has(config, f)

hasDirectory(config) == Has(config, "directory")

hasModel(config) == Has(config, "model")

usageConfig(config) ==
    [enabled              |-> hasUsage(config) /\ config.ccusageIntegration,
     showCost             |-> Has(config, "usage"),
     showTokens           |-> Has(config, "tokens"),
     showBurnRate         |-> Has(config, "burnrate"),
     showSession          |-> Has(config, "session"),
     showProgressBar      |-> config.theme # "minimal" /\ Has(config, "session"),
     showCacheEfficiency  |-> Has(config, "cache"),
     showProjections      |-> Has(config, "projections"),
     showContextUsage     |-> Has(config, "context"),
     showEfficiencyAlerts |-> Has(config, "alerts"),
     compactMode          |-> config.theme = "compact"]

gitConfig(config) ==
    [enabled     |-> hasGit(config),
     showBranch  |-> hasGit(config),
     showChanges |-> FALSE,
     compactMode |-> config.theme = "compact"]

DefaultRefreshRate == 3

systemConfig(config) ==
    [enabled       |-> hasSystem(config),
     showCPU       |-> Has(config, "cpu"),
     showRAM       |-> Has(config, "memory"),
     showLoad      |-> Has(config, "load"),
     refreshRate   |-> IF config.refreshRate # 0 THEN config.refreshRate
                       ELSE DefaultRefreshRate,
     displayFormat |-> IF config.theme = "compact" THEN "compact" ELSE "detailed"]

----------------------------------------------------------------------------
(* Script fragments.  A fragment is text; a line of a fragment starts with  *)
(* the "\n" atom that the template literal puts before it.  Lines that the  *)
(* run of the script branches on or prints with are split into atoms        *)
(* (if / [[ / $var / printf / format ...); a block of lines that neither    *)
(* rewriting nor the display logic looks into is one atom.                  *)

Line(atoms) == <<"\n">> \o atoms

BoolStr(b) == IF b THEN "true" ELSE "false"

\* Array.prototype.join(', ')
RECURSIVE Join(_)
Join(fs) ==
    IF fs = <<>> THEN <<>>
    ELSE IF Len(fs) = 1 THEN fs
    ELSE <<Head(fs), ", ">> \o Join(Tail(fs))

\* now is the value of new Date() at the call
generateScriptHeader(config, now) ==
    <<"#!/bin/bash">>
    \o Line(<<"# Generated by cc-statusline">>)
    \o Line(<<"# Custom Claude Code statusline - Created: ", ToString(now)>>)
    \o Line(<<"# Theme: ", config.theme, " | Colors: ", BoolStr(config.colors),
              " | Features: ">> \o Join(config.features))
    \o Line(<<"#">>)
    \o Line(<<"# Debug mode: Set CC_STATUSLINE_DEBUG=1 to enable debug logging">>)
    \o Line(<<"# Cache location: ~/.claude/ccusage_cache.json (30s TTL with 5m stale fallback)">>)

generateLoggingCode ==
    Line(<<"LOG_FILE=\"${HOME}/.claude/statusline.log\"">>)
    \o Line(<<"TIMESTAMP=$(date '+%Y-%m-%d %H:%M:%S')">>)
    \o Line(<<>>)
    \o Line(<<"# ---- logging ----">>)
    \o Line(<<"{ echo \"[$TIMESTAMP] Status line triggered with input:\"; (echo \"$input\" | jq . 2>/dev/null) || echo \"$input\"; echo \"---\"; } >> \"$LOG_FILE\" 2>/dev/null">>)
    \o <<"\n">>

generateRateLimitingCode ==
    Line(<<"# ---- rate limiting and error recovery ----">>)
    \o Line(<<"rate_limit_file=\"${HOME}/.claude/statusline_rate_limit.tmp\"">>)
    \o Line(<<"current_time=", "$", "{", "EPOCHSECONDS:-", "$(date +%s)", "}">>)
    \o Line(<<"min_interval=0">>)
    \o Line(<<>>)
    \o Line(<<"handle_statusline_error() { ... EMERGENCY_RESET 2>/dev/null || true; exit 1 }">>)
    \o Line(<<"trap 'handle_statusline_error \"Unexpected termination\"' ERR">>)
    \o Line(<<"trap 'restore_terminal_state; exit 0' EXIT">>)
    \o Line(<<"# rate limit check: exit 0 when time_diff < min_interval">>)
    \o Line(<<"echo \"$current_time\" > \"$rate_limit_file\" 2>/dev/null || { ... }">>)

generateContentTrackingCode ==
    Line(<<"# ---- content tracking and terminal safety ----">>)
    \o Line(<<"content_displayed=0">>)
    \o Line(<<"save_terminal_state 2>/dev/null || true">>)
    \o Line(<<"validate_terminal_output() { ... }">>)
    \o Line(<<"safe_printf() { ... }">>)
    \o Line(<<"validate_terminal_output || exit 1">>)

generateColorBashCode(config) ==
    optimizeBashCode(
        IF ~config.enabled
        THEN Line(<<"# ---- color helpers (disabled) ----">>)
             \o Line(<<"use_color=0">>)
             \o Line(<<"C() { :; }">>)
             \o Line(<<"RST() { :; }">>)
             \o <<"\n">>
        ELSE Line(<<"# ---- color helpers (terminal-safe with focus preservation) ----">>)
             \o Line(<<"use_color=1">>)
             \o Line(<<>>)
             \o Line(<<"[[ $NO_COLOR ]] && use_color=0">>)
             \o Line(<<"[[ $FORCE_COLOR ]] && use_color=1">>)
             \o Line(<<"if (( use_color && ! FORCE_COLOR )); then case \"$TERM\" in ... esac; fi">>)
             \o Line(<<"save_terminal_state() { ... }">>)
             \o Line(<<"restore_terminal_state() { ... }">>)
             \o Line(<<"C() { ... }">>)
             \o Line(<<"RST() { ... }">>)
             \o Line(<<"EMERGENCY_RESET() { ... }">>)
             \o Line(<<"trap 'restore_terminal_state' EXIT INT TERM">>)
             \o <<"\n">>)

generateBasicColors ==
    optimizeBashCode(
        Line(<<"# ---- basic colors (terminal-safe) ----">>)
        \o Line(<<"dir_clr() { C '1;36'; }">>)
        \o Line(<<"model_clr() { C '1;35'; }">>)
        \o Line(<<"ver_clr() { C '1;33'; }">>)
        \o Line(<<"rst() { RST; }">>)
        \o <<"\n">>)

generateUsageUtilities ==
    optimizeBashCode(
        Line(<<"# ---- time helpers ----">>)
        \o Line(<<"to_epoch() { ... }">>)
        \o Line(<<>>)
        \o Line(<<"fmt_time_hm() { ... }">>)
        \o Line(<<>>)
        \o Line(<<"progress_bar() { ... }">>))

generateGitUtilities ==
    optimizeBashCode(
        Line(<<"# ---- git utilities ----">>)
        \o Line(<<"num_or_zero() { ... }">>))

\* cacheManager.generateCacheInitCode(): creates the cache directory
generateCacheInitCode ==
    <<"# ---- cache initialization ----">>
    \o Line(<<"mkdir -p \"${HOME}/.claude/cache\" 2>/dev/null">>)

generateSystemUtilities ==
    optimizeBashCode(
        Line(<<"# ---- system utilities ----">>)
        \o Line(<<"has_bc() { command -v bc >/dev/null 2>&1; }">>)
        \o Line(<<>>)
        \o Line(<<"load_compare() { ... }">>)
        \o Line(<<>>)
        \o Line(generateCacheInitCode))

generateBasicDataExtraction(withDirectory, withModel) ==
    IF ~withDirectory /\ ~withModel THEN <<>>
    ELSE optimizeBashCode(
        Line(<<"# ---- basics ----">>)
        \o Line(<<"if command -v jq >/dev/null 2>&1; then">>)
        \o Line(<<"  eval \"$(echo \"$input\" | jq -r '{">>
                \o (IF withDirectory
                    THEN <<"cwd: (.workspace.current_dir // .cwd // \"unknown\")">>
                    ELSE <<>>)
                \o (IF withDirectory /\ withModel THEN <<", ">> ELSE <<>>)
                \o (IF withModel
                    THEN <<"model_name: (.model.display_name // \"Claude\")", ", ",
                           "model_version: (.model.version // \"\")">>
                    ELSE <<>>)
                \o <<"} | to_entries | ...' 2>/dev/null)\"">>)
        \o (IF withDirectory THEN Line(<<"  cwd=${cwd/#$HOME/~}">>) ELSE <<>>)
        \o Line(<<"else">>)
        \o Line(<<"  ">>
                \o (IF withDirectory THEN <<"cwd=\"unknown\"">> ELSE <<>>)
                \o (IF withDirectory /\ withModel THEN <<"; ">> ELSE <<>>)
                \o (IF withModel THEN <<"model_name=\"Claude\"; model_version=\"\"">>
                    ELSE <<>>))
        \o Line(<<"fi">>)
        \o <<"\n">>)

generateGitBashCode(config, colors) ==
    IF ~config.enabled THEN <<>>
    ELSE optimizeBashCode(
        (IF colors THEN Line(<<"# ---- git colors ----">>)
                        \o Line(<<"git_clr() { [[ $use_color -eq 1 ]] && printf '\\033[1;32m'; }">>)
         ELSE Line(<<"git_clr() { :; }">>))
        \o Line(<<"# ---- git ----">>)
        \o Line(<<"git_branch=\"\"">>)
        \o Line(<<"# branch lookup, guarded by command -v git and a timeout">>))

\* cacheManager.generateFileCacheCode(name, command): the emitted lookup that
\* leaves the served value in $cached_result
generateFileCacheCode(name, command) ==
    Line(<<"  # file cache: ", name>>)
    \o Line(<<"  cache_ttl=30 cache_grace=300">>)
    \o Line(<<"  cached_result=... ", command>>)

\* the text depends on the feature flags and on colors only; the memory
\* cache of this function is keyed by exactly these, so it is not modelled
usageBashText(config, colors) ==
        (IF colors THEN Line(<<"# ---- usage colors ----">>)
                        \o Line(<<"usage_clr() ... context_clr()">>)
                        \o <<"\n">>
         ELSE Line(<<"usage_clr() { :; } ... context_clr() { :; }">>) \o <<"\n">>)
        \o Line(<<"# ---- ccusage integration ----">>)
        \o Line(<<"sess_txt=\"\" pct=0 sess_bar=\"\" ...">>)
        \o Line(<<>>)
        \o Line(<<"if command -v jq >/dev/null 2>&1; then">>)
        \o Line(generateFileCacheCode("ccusage",
                    "ccusage blocks --json 2>/dev/null || timeout 5 npx ccusage@latest blocks --json 2>/dev/null"))
        \o Line(<<"  # jq fields:">>
                \o (IF config.showCost
                    THEN <<" cost_usd:", " ", "cost_per_hour", ":">> ELSE <<>>)
                \o (IF config.showTokens THEN <<" tot_tokens:">> ELSE <<>>)
                \o (IF config.showBurnRate THEN <<" tpm:">> ELSE <<>>)
                \o (IF config.showSession \/ config.showProgressBar
                    THEN <<" reset_time_str: start_time_str:">> ELSE <<>>)
                \o (IF config.showCacheEfficiency \/ config.showContextUsage
                    THEN <<" cache_creation_tokens: ...">> ELSE <<>>)
                \o (IF config.showProjections THEN <<" proj_total_cost: ...">> ELSE <<>>))
        \o (IF config.showSession \/ config.showProgressBar
            THEN Line(<<"  # session window: now_sec=", "$", "{", "EPOCHSECONDS:-",
                        "$(date +%s)", "}">>)
                 \o (IF config.showSession THEN Line(<<"  sess_txt=...">>) ELSE <<>>)
                 \o (IF config.showProgressBar THEN Line(<<"  sess_bar=...">>) ELSE <<>>)
            ELSE <<>>)
        \o (IF config.showCacheEfficiency \/ config.showContextUsage
            THEN Line(<<"  # cache efficiency and context usage">>) ELSE <<>>)
        \o (IF config.showProjections THEN Line(<<"  # projections">>) ELSE <<>>)
        \o (IF config.showEfficiencyAlerts THEN Line(<<"  # efficiency alerts">>) ELSE <<>>)
        \o Line(<<"fi">>)

\* optimizeBashCode(bashCode) of the text above
generateUsageBashCode(config, colors) ==
    IF ~config.enabled THEN <<>>
    ELSE optimizeBashCode(usageBashText(config, colors))

generateSystemBashCode(config, colors) ==
    IF ~config.enabled THEN <<>>
    ELSE optimizeBashCode(
        (IF colors THEN Line(<<"# ---- system colors ----">>)
                        \o Line(<<"cpu_clr() ... sys_clr()">>)
                        \o <<"\n">>
         ELSE Line(<<"cpu_clr() { :; } ... sys_clr() { :; }">>) \o <<"\n">>)
        \o Line(<<"# ---- system monitoring ----">>)
        \o Line(<<"cpu_percent=0 mem_used_gb=0 mem_total_gb=0 mem_percent=0">>)
        \o Line(<<>>)
        \o Line(<<"# System metrics cache (TTL: ", ToString(config.refreshRate), " seconds)">>)
        \o Line(<<"sys_ttl=", ToString(config.refreshRate)>>)
        \o Line(<<"now=", "$", "{", "EPOCHSECONDS:-", "$(date +%s)", "}">>)
        \o Line(<<"sys_cached=0">>)
        \o Line(<<>>)
        \o Line(<<"# read $sys_cache when now - cache_time < sys_ttl">>)
        \o Line(<<"# collect">>
                \o (IF config.showCPU THEN <<" cpu">> ELSE <<>>)
                \o (IF config.showRAM THEN <<" memory">> ELSE <<>>)
                \o (IF config.showLoad THEN <<" load">> ELSE <<>>)
                \o <<" when sys_cached is 0, then write $sys_cache">>))

generateLoggingOutput ==
    optimizeBashCode(
        Line(<<"# ---- log extracted data ----">>)
        \o Line(<<"{ echo \"[$TIMESTAMP] Extracted: ...\" } >> \"$LOG_FILE\" 2>/dev/null">>)
        \o <<"\n">>)

----------------------------------------------------------------------------
(* Display code.  Statement lines start with one of the atoms if, else, fi, *)
(* printf, [[ (a one-line "[[ c ]] && printf"), content_displayed=1; a      *)
(* "$name" atom inside a condition is the test that the variable holds a    *)
(* value the block renders.  Emojis are written as <name>.                  *)

If(cond) == Line(<<"if", "[[">> \o cond \o <<"]]", "then">>)

IfArith(cond) == Line(<<"if", "((", cond, "))", "then">>)

Printf(format, args) == Line(<<"printf", format, args>>)

\* git.ts: the branch is printed when $git_branch is non-empty
generateGitDisplayCode(config, colors, emojis) ==
    IF ~config.enabled THEN <<>>
    ELSE optimizeBashCode(
        Line(<<"# git">>)
        \o If(<<"$git_branch">>)
        \o Printf(IF emojis THEN "'  <branch> %s%s%s'" ELSE "'  git: %s%s%s'",
                  IF colors THEN "\"$(git_clr)\" \"$git_branch\" \"$(rst)\""
                  ELSE "\"\" \"$git_branch\" \"\"")
        \o Line(<<"content_displayed=1">>)
        \o Line(<<"fi">>))

generateSystemDisplayCode(config, emojis) ==
    IF ~config.enabled THEN <<>>
    ELSE optimizeBashCode(
        (IF config.showCPU
         THEN Line(<<"# cpu usage">>)
              \o If(<<"$cpu_percent">>)
              \o Printf(IF emojis THEN "'  <computer> %s%s%%%s'" ELSE "'  cpu: %s%s%%%s'",
                        "\"$(cpu_clr)\" \"$cpu_percent\" \"$(rst)\"")
              \o Line(<<"fi">>)
         ELSE <<>>)
        \o
        (IF config.showRAM
         THEN Line(<<IF config.displayFormat = "detailed"
                     THEN "# memory usage (detailed)" ELSE "# memory usage (compact)">>)
              \o If(<<"$mem_total_gb">>)
              \o Printf(IF config.displayFormat = "detailed"
                        THEN (IF emojis THEN "'  <brain> %s%sGB/%sGB (%s%%)%s'"
                              ELSE "'  ram: %s%sGB/%sGB (%s%%)%s'")
                        ELSE (IF emojis THEN "'  <brain> %s%sG/%sG%s'"
                              ELSE "'  ram: %s%sG/%sG%s'"),
                        "\"$(mem_clr)\" \"$mem_used_gb\" \"$mem_total_gb\" ...")
              \o Line(<<"fi">>)
         ELSE <<>>)
        \o
        (IF config.showLoad
         THEN Line(<<IF config.displayFormat = "detailed"
                     THEN "# system load (detailed with context)"
                     ELSE "# system load (compact with status)">>)
              \o If(<<"$load_1min">>)
              \o Line(<<IF config.displayFormat = "detailed"
                        THEN "  load_status=... (from $load_1min)"
                        ELSE "  trend=... (from $load_1min, $load_5min)">>)
              \o Printf(IF config.displayFormat = "detailed"
                        THEN (IF emojis THEN "'  <zap> Load: %s%s%s %s (1m/5m/15m: %s/%s/%s)'"
                              ELSE "'  load: Load: %s%s%s %s (1m/5m/15m: %s/%s/%s)'")
                        ELSE (IF emojis THEN "'  <zap> %s%s%s%s'" ELSE "'  load: %s%s%s%s'"),
                        "\"$(load_clr)\" \"$load_1min\" ...")
              \o Line(<<"fi">>)
         ELSE <<>>))

enabledFeatures(config) ==
    Cardinality({k \in {"showCost", "showTokens", "showBurnRate", "showSession",
                        "showCacheEfficiency", "showProjections", "showContextUsage",
                        "showEfficiencyAlerts"} : config[k]})

CompactThreshold == 5

UltraCompactThreshold == 8

\* the branch of generateUsageDisplayCode taken when more than
\* CompactThreshold usage features are enabled
SmartCompactDisplay(config) ==
    LET isUltraCompact == enabledFeatures(config) >= UltraCompactThreshold
        ultra   == IF isUltraCompact THEN "\"1\"" ELSE "\"0\""
        spacing == IF isUltraCompact THEN "" ELSE " "
    IN  Line(<<"# smart compact usage display (", ToString(enabledFeatures(config)),
               " features, ", IF isUltraCompact THEN "ultra-compact" ELSE "smart-compact",
               " mode)">>)
        \o Line(<<>>)
        \o Line(<<"format_currency() { ... }">>)
        \o Line(<<"format_number_k() { ... }">>)
        \o Line(<<"format_time_compact() { ... }">>)
        \o (IF config.showSession
            THEN Line(<<"# session time">>)
                 \o If(<<"$sess_txt">>)
                 \o Line(<<"  remaining=$(echo \"$sess_txt\" | grep -o ... | head -1)">>)
                 \o If(<<"$remaining">>)
                 \o Line(<<"    formatted_time=$(format_time_compact \"$remaining\" ", ultra, ")">>)
                 \o Printf("'  <hourglass> %s%s%s" \o spacing \o "'",
                           "\"$(sess_clr)\" \"$formatted_time\" \"$(rst)\"")
                 \o Line(<<"fi">>)
                 \o Line(<<"fi">>)
            ELSE <<>>)
        \o (IF config.showCost
            THEN Line(<<"# cost with smart formatting">>)
                 \o If(<<"$cost_usd">>)
                 \o Line(<<"  formatted_cost=$(format_currency \"$cost_usd\" ", ultra, ")">>)
                 \o Printf(IF isUltraCompact THEN "'  <moneybag> %s%s'" ELSE "'  <dollar> %s%s'",
                           "\"$(cost_clr)\" \"$formatted_cost\"")
                 \o Line(<<"[[", "$proj_total_cost", "&&",
                           "\"" \o BoolStr(config.showProjections) \o "\" == \"true\"",
                           "]]", "&&", "printf", "'->%s'", "\"$formatted_proj\"">>)
                 \o Printf("'%s" \o spacing \o "'", "\"$(rst)\"")
                 \o Line(<<"fi">>)
            ELSE <<>>)
        \o (IF config.showCacheEfficiency
            THEN Line(<<"# cache efficiency">>)
                 \o If(<<"$cache_efficiency">>)
                 \o Printf((IF isUltraCompact THEN "'  <zap>" ELSE "'  <cycle>")
                               \o "%s%.0f%%%s" \o spacing \o "'",
                           "\"$(cache_clr)\" \"$cache_efficiency\" \"$(rst)\"")
                 \o Line(<<"fi">>)
            ELSE <<>>)
        \o (IF config.showContextUsage
            THEN Line(<<"# context usage with alerts">>)
                 \o If(<<"$context_usage_pct">>)
                 \o Line(<<"  context_warning_threshold=80">>)
                 \o IfArith("context_usage_pct > context_warning_threshold")
                 \o Printf("'  <ruler>%s%d%%<warn>%s" \o spacing \o "'",
                           "\"$(context_clr)\" \"$context_usage_pct\" \"$(rst)\"")
                 \o Line(<<"else">>)
                 \o Printf("'  <ruler>%s%d%%%s" \o spacing \o "'",
                           "\"$(context_clr)\" \"$context_usage_pct\" \"$(rst)\"")
                 \o Line(<<"fi">>)
                 \o Line(<<"fi">>)
            ELSE <<>>)
        \o (IF config.showBurnRate
            THEN Line(<<"# burn rate">>)
                 \o If(<<"$tpm">>)
                 \o Line(<<"  formatted_tpm=$(format_number_k \"$tpm\" ", ultra, ")">>)
                 \o Line(<<IF isUltraCompact THEN "  unit=\"\"" ELSE "  unit=\" tpm\"">>)
                 \o Printf("'  <fire>%s%s%s%s" \o spacing \o "'",
                           "\"$(usage_clr)\" \"$formatted_tpm\" \"$unit\" \"$(rst)\"")
                 \o Line(<<"fi">>)
            ELSE <<>>)
        \o Line(<<"# newline after compact display">>)
        \o Line(<<"printf", "'\\n'">>)

generateUsageDisplayCode(config, emojis) ==
    IF ~config.enabled THEN <<>>
    ELSE IF enabledFeatures(config) > CompactThreshold
    THEN optimizeBashCode(SmartCompactDisplay(config))
    ELSE optimizeBashCode(
        (IF config.showSession
         THEN Line(<<"# session time">>)
              \o If(<<"$sess_txt">>)
              \o Printf(IF emojis THEN "'  <hourglass> %s%s%s'" ELSE "'  session: %s%s%s'",
                        "\"$(sess_clr)\" \"$sess_txt\" \"$(rst)\"")
              \o (IF config.showProgressBar
                  THEN Printf("'  %s[%s]%s'", "\"$(sess_clr)\" \"$sess_bar\" \"$(rst)\"")
                  ELSE <<>>)
              \o Line(<<"fi">>)
         ELSE <<>>)
        \o
        (IF config.showCost
         THEN Line(<<"# cost with smart projection integration">>)
              \o If(<<"$cost_usd">>)
              \o Printf(IF emojis THEN "'  <dollar> %s$%.2f'" ELSE "'  $ %s$%.2f'",
                        "\"$(cost_clr)\" \"$cost_usd\"")
              \o If(<<"$proj_total_cost", "&&",
                      "\"" \o BoolStr(config.showProjections) \o "\" == \"true\"">>)
              \o Printf("'->$%.2f'", "\"$proj_total_cost\"")
              \o Line(<<"fi">>)
              \o If(<<"$cost_ph">>)
              \o Printf("' ($%.2f/h)'", "\"$cost_ph\"")
              \o Line(<<"fi">>)
              \o Printf("'%s'", "\"$(rst)\"")
              \o Line(<<"fi">>)
         ELSE <<>>)
        \o
        (IF config.showTokens
         THEN Line(<<"# tokens">>)
              \o If(<<"$tot_tokens">>)
              \o Line(<<"if", "[[", "$tpm", "]]", "&&", BoolStr(config.showBurnRate), "then">>)
              \o Printf(IF emojis THEN "'  <chart> %s%s tok (%.0f tpm)%s'"
                        ELSE "'  tok: %s%s tok (%.0f tpm)%s'",
                        "\"$(usage_clr)\" \"$tot_tokens\" \"$tpm\" \"$(rst)\"")
              \o Line(<<"else">>)
              \o Printf(IF emojis THEN "'  <chart> %s%s tok%s'" ELSE "'  tok: %s%s tok%s'",
                        "\"$(usage_clr)\" \"$tot_tokens\" \"$(rst)\"")
              \o Line(<<"fi">>)
              \o Line(<<"fi">>)
         ELSE <<>>)
        \o
        (IF config.showCacheEfficiency
         THEN Line(<<"# cache efficiency">>)
              \o If(<<"$cache_efficiency">>)
              \o Printf(IF emojis THEN "'  <cycle> %s%.1f%%%s'" ELSE "'  cache: %s%.1f%%%s'",
                        "\"$(cache_clr)\" \"$cache_efficiency\" \"$(rst)\"")
              \o Line(<<"[[", "$cache_savings", "]]", "&&", "printf",
                        "' %s(saved %.0f tok)%s'", "\"$(cache_clr)\" \"$cache_savings\" \"$(rst)\"">>)
              \o Line(<<"fi">>)
         ELSE <<>>)
        \o
        (IF config.showProjections /\ ~config.showCost
         THEN Line(<<"# projections (standalone when cost not shown)">>)
              \o If(<<"$proj_cost_txt">>)
              \o Printf(IF emojis THEN "'  <trend> %s%s%s'" ELSE "'  proj: %s%s%s'",
                        "\"$(proj_clr)\" \"$proj_cost_txt\" \"$(rst)\"")
              \o Line(<<"[[", "$proj_time_txt", "]]", "&&", "printf",
                        "' %s(%s)%s'", "\"$(proj_clr)\" \"$proj_time_txt\" \"$(rst)\"">>)
              \o Line(<<"fi">>)
         ELSE IF config.showProjections /\ config.showCost
         THEN Line(<<"# time projection (when cost already shown)">>)
              \o If(<<"$proj_time_txt">>)
              \o Printf(IF emojis THEN "'  <stopwatch> %s%s%s'" ELSE "'  time: %s%s%s'",
                        "\"$(proj_clr)\" \"$proj_time_txt\" \"$(rst)\"")
              \o Line(<<"fi">>)
         ELSE <<>>)
        \o
        (IF config.showContextUsage
         THEN Line(<<"# context usage with integrated alerts">>)
              \o If(<<"$context_usage_pct">>)
              \o Line(<<"  context_warning_threshold=80">>)
              \o IfArith("context_usage_pct > context_warning_threshold")
              \o Printf(IF emojis THEN "'  <ruler> %s%d%%<warn>%s'" ELSE "'  ctx: %s%d%%<warn>%s'",
                        "\"$(context_clr)\" \"$context_usage_pct\" \"$(rst)\"")
              \o Line(<<"else">>)
              \o Printf(IF emojis THEN "'  <ruler> %s%d%%%s'" ELSE "'  ctx: %s%d%%%s'",
                        "\"$(context_clr)\" \"$context_usage_pct\" \"$(rst)\"")
              \o Line(<<"fi">>)
              \o Line(<<"fi">>)
         ELSE <<>>)
        \o
        (IF config.showEfficiencyAlerts /\ ~config.showContextUsage
         THEN Line(<<"# efficiency alerts (standalone when context not shown)">>)
              \o If(<<"$efficiency_alert">>)
              \o Printf("'  %s%s%s'", "\"$(alert_clr)\" \"$efficiency_alert\" \"$(rst)\"")
              \o Line(<<"fi">>)
         ELSE <<>>))

\* the display code that the loop over featurePriority adds for one feature
FeatureDisplay(config, feature) ==
    LET emojis == config.colors /\ ~config.customEmojis
    IN  IF ~Has(config, feature) THEN <<>>
        ELSE CASE feature = "directory" ->
                  Printf(IF emojis THEN "'<folder> %s%s%s'" ELSE "'dir: %s%s%s'",
                         IF config.colors THEN "\"$(dir_clr)\" \"$cwd\" \"$(rst)\""
                         ELSE "\"\" \"$cwd\" \"\"")
                  \o Line(<<"content_displayed=1">>)
               [] feature = "model" ->
                  Printf(IF emojis THEN "'  <robot> %s%s%s'" ELSE "'  model: %s%s%s'",
                         IF config.colors THEN "\"$(model_clr)\" \"$model_name\" \"$(rst)\""
                         ELSE "\"\" \"$model_name\" \"\"")
                  \o Line(<<"content_displayed=1">>)
               [] feature = "git" ->
                  generateGitDisplayCode(gitConfig(config), config.colors, emojis)
               [] feature \in {"cpu", "memory", "load"} ->
                  IF \/ feature = "cpu"
                     \/ ~Has(config, "cpu") /\ feature = "memory"
                     \/ ~Has(config, "cpu") /\ ~Has(config, "memory") /\ feature = "load"
                  THEN generateSystemDisplayCode(systemConfig(config), emojis)
                  ELSE <<>>
               [] feature \in {"usage", "session", "tokens", "burnrate"} ->
                  IF feature = "usage" \/ (~Has(config, "usage") /\ feature = "session")
                  THEN generateUsageDisplayCode(usageConfig(config), emojis)
                  ELSE <<>>

generateDisplaySection(config) ==
    optimizeBashCode(
        Line(<<"# ---- render statusline ----">>)
        \o Flatten([k \in 1..Len(featurePriority) |->
                        FeatureDisplay(config, featurePriority[k])])
        \o Line(<<"# conditional newline (only if content was displayed)">>)
        \o If(<<"$content_displayed -eq 1">>)
        \o Line(<<"printf", "'\\n'">>)
        \o Line(<<"fi">>))

----------------------------------------------------------------------------
(* cache-manager.ts, memory tier, and the template cache                    *)

\* a stable content hash over the canonical form of its arguments: the
\* feature list in canonical order (a set) and the options object.  The key
\* is the canonical form itself, so distinct arguments never collide.
generateFeatureHash(features, options) ==
    [features |-> {features[i] : i \in 1..Len(features)}, options |-> options]

generateCacheKey(domain, hash) == <<domain, hash>>

NoScript == <<>>

\* the memory tier is a set of entries with distinct keys; a hit is
\* unconditional
getFromMemory(cache, key) ==
    IF \E e \in cache : e.key = key
    THEN (CHOOSE e \in cache : e.key = key).value
    ELSE NoScript

setInMemory(cache, key, value) ==
    {e \in cache : e.key # key} \cup {[key |-> key, value |-> value]}

\* template-cache.ts: a fixed table of precomputed scripts for a few common
\* configurations, each byte-identical to what the pipeline produces; the
\* table is taken to be empty, every call falls through to the pipeline
generateOptimizedBashStatusline(config) == NoScript

----------------------------------------------------------------------------
(* generateBashStatusline *)

\* the parts joined in reverse order
JoinPartsReversed(parts) ==
    Bind([k \in 1..Len(parts) |-> parts[Len(parts) + 1 - k]], LAMBDA ps :
        Flatten([k \in 1..Len(ps) |->
                    IF ps[k] = <<>> THEN <<>>
                    ELSE IF \E j \in (k + 1)..Len(ps) : ps[j] # <<>>
                    THEN ps[k] \o <<"\n">>
                    ELSE ps[k]]))

\* parts.filter(Boolean).join('\n'): every part but the last non-empty one
\* is followed by the separator
JoinParts(parts) ==
    Bind(parts, LAMBDA ps :
        Flatten([k \in 1..Len(ps) |->
                    IF ps[k] = <<>> THEN <<>>
                    ELSE IF \E j \in (k + 1)..Len(ps) : ps[j] # <<>>
                    THEN ps[k] \o <<"\n">>
                    ELSE ps[k]]))

\* the parts array
scriptParts(config, now) ==
    <<
        generateScriptHeader(config, now),
        IF config.logging THEN generateLoggingCode ELSE <<>>,
        <<"input=$(cat)">>,
        generateRateLimitingCode,
        generateContentTrackingCode,
        generateColorBashCode([enabled |-> config.colors, theme |-> config.theme]),
        IF config.colors THEN generateBasicColors ELSE <<>>,
        IF hasUsage(config) THEN generateUsageUtilities ELSE <<>>,
        IF hasGit(config) THEN generateGitUtilities ELSE <<>>,
        IF hasSystem(config) THEN generateSystemUtilities ELSE <<>>,
        generateBasicDataExtraction(hasDirectory(config), hasModel(config)),
        IF hasGit(config) THEN generateGitBashCode(gitConfig(config), config.colors) ELSE <<>>,
        IF hasUsage(config) THEN generateUsageBashCode(usageConfig(config), config.colors)
        ELSE <<>>,
        IF hasSystem(config) THEN generateSystemBashCode(systemConfig(config), config.colors)
        ELSE <<>>,
        IF config.logging THEN generateLoggingOutput ELSE <<>>,
        generateDisplaySection(config) >>

rawScript(config, now) == JoinParts(scriptParts(config, now)) \o <<"\n">>

templateHash(config) ==
    generateFeatureHash(config.features,
        [colors             |-> config.colors,
         theme              |-> config.theme,
         ccusageIntegration |-> config.ccusageIntegration,
         customEmojis       |-> config.customEmojis,
         logging            |-> config.logging])

\* the script returned for config at time now, and the memory cache after
\* the call
generateBashStatusline(config, now, cache) ==
    LET cachedScript     == generateOptimizedBashStatusline(config)
        templateCacheKey == generateCacheKey("template", templateHash(config))
        memoryScript     == getFromMemory(cache, templateCacheKey)
        optimizedScript  == optimizeBashCode(rawScript(config, now))
    IN  IF cachedScript # NoScript THEN [script |-> cachedScript, cache |-> cache]
        ELSE IF memoryScript # NoScript THEN [script |-> memoryScript, cache |-> cache]
        ELSE [script |-> optimizedScript,
              cache  |-> setInMemory(cache, templateCacheKey, optimizedScript)]

----------------------------------------------------------------------------
(* Two calls of generateBashStatusline.  The first call compiles a           *)
(* configuration at time 0; the second call, in the same process or in a    *)
(* new one (empty memory cache), at the same or a later time, compiles a    *)
(* configuration that differs from the first in at most one field, or       *)
(* whose feature list is a permutation of the first's.                      *)

MaxFeatures == 2

MaxClock == 1

FeatureNames == {"directory", "cpu", "usage"}

RECURSIVE ListsOf(_)
\* the duplicate-free lists of at most k feature names
ListsOf(k) ==
    IF k = 0 THEN {<<>>}
    ELSE LET shorter == ListsOf(k - 1)
         IN  shorter \cup {Append(l, f) : l \in shorter, f \in FeatureNames}

FeatureLists ==
    {l \in ListsOf(MaxFeatures) :
        \A i, j \in 1..Len(l) : i # j => l[i] # l[j]}

\* systemMonitoring.refreshRate in milliseconds (validateConfig: 100..60000);
\* 0: no systemMonitoring
RefreshRates == {0, 3000, 5000}

AnyConfigs ==
    [features : FeatureLists, theme : Themes, colors : BOOLEAN,
     ccusageIntegration : BOOLEAN, customEmojis : BOOLEAN, logging : BOOLEAN,
     refreshRate : RefreshRates]

\* the configurations of the first call: any feature list, with or without
\* colors, with or without systemMonitoring
GenConfigs ==
    {c \in AnyConfigs :
        /\ c.theme = "detailed"
        /\ c.ccusageIntegration
        /\ ~c.customEmojis
        /\ ~c.logging
        /\ c.refreshRate \in {0, 3000}}

ConfigFields ==
    {"features", "theme", "colors", "ccusageIntegration", "customEmojis",
     "logging", "refreshRate"}

FeatureSet(config) == {config.features[i] : i \in 1..Len(config.features)}

Permuted(c, d) ==
    /\ FeatureSet(c) = FeatureSet(d)
    /\ Len(c.features) = Len(d.features)
    /\ \A k \in ConfigFields \ {"features"} : c[k] = d[k]

\* the configurations of the second call
Variants(c) ==
    {d \in AnyConfigs :
        \/ Cardinality({k \in ConfigFields : c[k] # d[k]}) <= 1
        \/ Permuted(c, d)}

\* the record of a call that returned r: its configuration, the script, the
\* time, and whether the memory tier answered
Call(config, r, now, cache) ==
    [config |-> config, script |-> r.script, at |-> now,
     hit |-> getFromMemory(cache, generateCacheKey("template", templateHash(config)))
             # NoScript]

OptIdle ==
    /\ text = <<>>
    /\ result = <<>>
    /\ op = [fn |-> "none", on |-> TRUE]

Init ==
    /\ OptIdle
    /\ GenIdle
    /\ FileIdle
    /\ RunIdle
    /\ MoreIdle

GenFirst(config) ==
    /\ stage = "idle"
    /\ \E r \in {generateBashStatusline(config, clock, memoryCache)} :
          /\ first' = Call(config, r, clock, memoryCache)
          /\ memoryCache' = r.cache
    /\ stage' = "one"
    /\ UNCHANGED <<clock, second, optVars, fileVars, runVars, moreVars>>

\* wall-clock time passes
Tick ==
    /\ stage = "one"
    /\ clock < MaxClock
    /\ clock' = clock + 1
    /\ UNCHANGED <<memoryCache, first, second, stage, optVars, fileVars, runVars, moreVars>>

\* the process ends and a new one starts: the memory tier is empty again
NewProcess ==
    /\ stage = "one"
    /\ memoryCache # {}
    /\ memoryCache' = {}
    /\ UNCHANGED <<clock, first, second, stage, optVars, fileVars, runVars, moreVars>>

GenSecond(config) ==
    /\ stage = "one"
    /\ \E r \in {generateBashStatusline(config, clock, memoryCache)} :
          /\ second' = Call(config, r, clock, memoryCache)
          /\ memoryCache' = r.cache
    /\ stage' = "two"
    /\ UNCHANGED <<clock, first, optVars, fileVars, runVars, moreVars>>

Next ==
    \/ \E config \in GenConfigs : GenFirst(config)
    \/ Tick
    \/ NewProcess
    \/ \E config \in Variants(first.config) : GenSecond(config)

Spec == Init /\ [][Next]_vars

----------------------------------------------------------------------------
(* Properties of generateBashStatusline *)

\* C1: two calls with the same configuration return the same script text,
\* also when the second call runs in a new process at a later time.
C1_SameConfigSameScript ==
    (stage = "two" /\ second.config = first.config)
        => second.script = first.script

\* C2: two calls whose feature lists are permutations of one another, the
\* configurations otherwise equal, return the same script text.  The calls
\* are taken at the same clock time, so that the creation time in the header
\* cannot be what tells the two texts apart.
C2_PermutationSameScript ==
    (stage = "two" /\ Permuted(first.config, second.config) /\ second.at = first.at)
        => second.script = first.script

\* C7: a memory-cache hit returns the script that the configuration of the
\* call compiles to.  The two calls have the same feature list, so that the
\* order of the list in the header cannot be what tells the texts apart.
C7_CacheHitIsOwnScript ==
    (stage = "two" /\ second.hit /\ second.config.features = first.config.features)
        => second.script = optimizeBashCode(rawScript(second.config, first.at))

RenderMarker == "# ---- render statusline ----"

\* the first lines of the sections of a script
UtilityMarkers ==
    {"# ---- basic colors (terminal-safe) ----", "# ---- time helpers ----",
     "# ---- git utilities ----", "# ---- system utilities ----"}

QueryMarkers ==
    {"# ---- basics ----", "# ---- git ----", "# ---- ccusage integration ----",
     "# ---- system monitoring ----"}

ColorMarkers ==
    {"# ---- color helpers (disabled) ----",
     "# ---- color helpers (terminal-safe with focus preservation) ----"}

Epilogue ==
    <<"# conditional newline (only if content was displayed)", "\n",
      "if", "[[", "$content_displayed -eq 1", "]]", "then", "\n",
      "printf", "'\\n'", "\n", "fi", "\n">>

Positions(s, atoms) == {i \in 1..Len(s) : s[i] \in atoms}

\* every position of A is before every position of B
Before(A, B) == \A a \in A, b \in B : a < b

One(s, atoms) == Cardinality(Positions(s, atoms)) = 1

\* script s holds its sections in the order of the parts array
SectionsInOrder(s) ==
    /\ s # <<>>
    /\ s[1] = "#!/bin/bash"
    /\ One(s, {"input=$(cat)"})
    /\ One(s, {"# ---- rate limiting and error recovery ----"})
    /\ One(s, {"content_displayed=0"})
    /\ One(s, ColorMarkers)
    /\ One(s, {RenderMarker})
    /\ Before({1}, Positions(s, {"input=$(cat)"}))
    /\ Before(Positions(s, {"input=$(cat)"}),
              Positions(s, {"# ---- rate limiting and error recovery ----"}))
    /\ Before(Positions(s, {"# ---- rate limiting and error recovery ----"}),
              Positions(s, {"content_displayed=0"}))
    /\ Before(Positions(s, {"content_displayed=0"}), Positions(s, ColorMarkers))
    /\ Before(Positions(s, ColorMarkers), Positions(s, UtilityMarkers))
    /\ Before(Positions(s, ColorMarkers), Positions(s, QueryMarkers))
    /\ Before(Positions(s, UtilityMarkers), Positions(s, QueryMarkers))
    /\ Before(Positions(s, UtilityMarkers), Positions(s, {RenderMarker}))
    /\ Before(Positions(s, QueryMarkers), Positions(s, {RenderMarker}))
    /\ Before(Positions(s, ColorMarkers), Positions(s, {RenderMarker}))
    /\ Len(s) > Len(Epilogue)
    /\ SubSeq(s, Len(s) - Len(Epilogue) + 1, Len(s)) = Epilogue
    /\ Before(Positions(s, {RenderMarker}), {Len(s) - Len(Epilogue) + 1})

\* C11: every generated script, also for an empty feature list, holds its
\* sections in this order: header, input=$(cat), rate limiter, content
\* tracking (content_displayed=0), color bootstrap, utility code, runtime
\* query code, display section; and it ends with the conditional newline.
C11_SectionOrder ==
    /\ stage \in {"one", "two"} => SectionsInOrder(first.script)
    /\ stage = "two" => SectionsInOrder(second.script)

C11_Witness ==
    /\ stage = "two"
    /\ first.config.features = <<>>
    /\ second.config.features = <<"usage", "cpu">>
    /\ Positions(second.script, UtilityMarkers) # {}
    /\ Positions(second.script, QueryMarkers) # {}

----------------------------------------------------------------------------
(* The file cache of the emitted script (cacheManager.generateFileCacheCode *)
(* for the ccusage data).  An entry is tagged with its creation time; the   *)
(* value of an entry is identified with the time the data was fetched.      *)

CACHE_TTL == 30

GRACE_WINDOW == 300

MaxTime == 303

RefreshOutcomes == {"ok", "nonzero", "timeout"}

\* a lookup that serves stale data whenever the refresh fails, however old
\* the entry is
fileCacheGetAnyAge(entry, t, refresh) ==
    LET age == t - entry.createdAt
    IN  IF entry.present /\ age <= CACHE_TTL
        THEN [served |-> [kind |-> "fresh", had |-> TRUE, age |-> age,
                          refresh |-> "none", value |-> entry.createdAt],
              entry  |-> entry]
        ELSE IF refresh = "ok"
        THEN [served |-> [kind |-> "refreshed", had |-> entry.present,
                          age |-> IF entry.present THEN age ELSE 0,
                          refresh |-> refresh, value |-> t],
              entry  |-> [present |-> TRUE, createdAt |-> t]]
        ELSE IF entry.present
        THEN [served |-> [kind |-> "stale", had |-> TRUE, age |-> age,
                          refresh |-> refresh, value |-> entry.createdAt],
              entry  |-> entry]
        ELSE [served |-> [kind |-> "empty", had |-> FALSE, age |-> 0,
                          refresh |-> refresh, value |-> 0],
              entry  |-> entry]

\* the lookup at time t, refresh being the outcome the refresh command has
\* if it is run: what is left in $cached_result, and the entry afterwards.
\* An entry no older than the TTL is served as it is; otherwise the command
\* is run and its output is stored and served; if the command fails, an
\* entry within the grace window is served; otherwise nothing is.
fileCacheGet(entry, t, refresh) ==
    LET age == t - entry.createdAt
    IN  IF entry.present /\ age <= CACHE_TTL
        THEN [served |-> [kind |-> "fresh", had |-> TRUE, age |-> age,
                          refresh |-> "none", value |-> entry.createdAt],
              entry  |-> entry]
        ELSE IF refresh = "ok"
        THEN [served |-> [kind |-> "refreshed", had |-> entry.present,
                          age |-> IF entry.present THEN age ELSE 0,
                          refresh |-> refresh, value |-> t],
              entry  |-> [present |-> TRUE, createdAt |-> t]]
        ELSE IF entry.present /\ age <= GRACE_WINDOW
        THEN [served |-> [kind |-> "stale", had |-> TRUE, age |-> age,
                          refresh |-> refresh, value |-> entry.createdAt],
              entry  |-> entry]
        ELSE [served |-> [kind |-> "empty", had |-> entry.present,
                          age |-> IF entry.present THEN age ELSE 0,
                          refresh |-> refresh, value |-> 0],
              entry  |-> entry]

InitFile ==
    /\ OptIdle
    /\ GenIdle
    /\ FileIdle
    /\ RunIdle
    /\ MoreIdle

\* a second passes
Advance ==
    /\ time < MaxTime
    /\ time' = time + 1
    /\ served' = NotServed
    /\ UNCHANGED <<fileCache, optVars, genVars, runVars, moreVars>>

\* the script runs its lookup
Get(refresh) ==
    /\ served = NotServed
    /\ \E r \in {fileCacheGet(fileCache, time, refresh)} :
          /\ served' = r.served
          /\ fileCache' = r.entry
    /\ UNCHANGED <<time, optVars, genVars, runVars, moreVars>>

NextFile ==
    \/ Advance
    \/ \E refresh \in RefreshOutcomes : Get(refresh)

SpecFile == InitFile /\ [][NextFile]_vars

\* C8: an entry no older than the TTL is served without running the refresh
\* command; an entry older than the TTL and within the grace window is served
\* exactly when the refresh fails (non-zero exit or timeout); an entry older
\* than the grace window is never served.
C8_FileCacheWindows ==
    (served.kind # "none" /\ served.had) =>
        /\ served.age <= CACHE_TTL =>
              /\ served.kind = "fresh"
              /\ served.refresh = "none"
              /\ served.value = time - served.age
        /\ (served.age > CACHE_TTL /\ served.age <= GRACE_WINDOW) =>
              /\ served.refresh # "none"
              /\ served.kind = "stale" <=> served.refresh \in {"nonzero", "timeout"}
              /\ served.kind = "stale" => served.value = time - served.age
        /\ served.age > GRACE_WINDOW => served.kind \notin {"fresh", "stale"}

C8_Witness ==
    /\ served.kind = "stale"
    /\ served.age > CACHE_TTL
    /\ served.refresh = "timeout"

----------------------------------------------------------------------------
(* One run of the display code of a generated script.  The statements are   *)
(* the lines of the script from "# ---- render statusline ----" on; env is  *)
(* the set of tests that hold in this run (a variable with a value to       *)
(* render, or an arithmetic comparison that is true).                       *)

MaxNonEmpty == 2

\* the lines of text t, without their "\n"
SplitLines(t) ==
    Bind({0, Len(t) + 1} \cup {i \in 1..Len(t) : t[i] = "\n"}, LAMBDA breaks :
        [k \in 1..(Cardinality(breaks) - 1) |->
            Bind(CHOOSE b \in breaks : Cardinality({c \in breaks : c < b}) = k - 1,
                 LAMBDA lo :
                    Bind(CHOOSE b \in breaks : Cardinality({c \in breaks : c < b}) = k,
                         LAMBDA hi : SubSeq(t, lo + 1, hi - 1)))])

\* the display statements of a script
DisplayStatements(script) ==
    Bind(script, LAMBDA t : SplitLines(SubSeq(t, IndexOf(t, RenderMarker), Len(t))))

Connectives == {"if", "[[", "]]", "((", "))", "&&"}

Kind(s) ==
    IF s = <<>> THEN "other"
    ELSE CASE s[1] = "if"                  -> "if"
           [] s[1] = "else"                -> "else"
           [] s[1] = "fi"                  -> "fi"
           [] s[1] = "printf"              -> "printf"
           [] s[1] = "[["                  -> "test"
           [] s[1] = "content_displayed=1" -> "set"
           [] OTHER                        -> "other"

\* the tests a statement makes
TestsOf(s) ==
    IF Kind(s) \notin {"if", "test"} THEN {}
    ELSE {s[i] : i \in 1..(IndexOf(s, IF Kind(s) = "if" THEN "then" ELSE "printf") - 1)}
         \ Connectives

\* the tests whose outcome depends on the data of the run
RuntimeTests(program) ==
    UNION {TestsOf(program[k]) : k \in 1..Len(program)}
    \ {"$content_displayed -eq 1", "true", "false",
       "\"true\" == \"true\"", "\"false\" == \"true\""}

RECURSIVE SubsetsUpTo(_, _)
SubsetsUpTo(S, k) ==
    IF k = 0 THEN {{}}
    ELSE LET smaller == SubsetsUpTo(S, k - 1)
         IN  smaller \cup {e \cup {a} : e \in smaller, a \in S}

Holds(test, r) ==
    CASE test = "$content_displayed -eq 1"            -> r.content_displayed = 1
      [] test \in {"true", "\"true\" == \"true\""}   -> TRUE
      [] test \in {"false", "\"false\" == \"true\""} -> FALSE
      [] OTHER                                         -> test \in r.env

\* the condition of statement s holds in run r
Test(s, r) == \A test \in TestsOf(s) : Holds(test, r)

\* the statement after printf's format and arguments: a format with literal
\* text writes something whatever its arguments hold
Format(s) == s[IndexOf(s, "printf") + 1]

IsNewline(s) == Format(s) = "'\\n'"

WritesText(s) == ~IsNewline(s) /\ Format(s) \notin {"'%s'", "'%s '"}

\* the run after the printf of statement s
Printed(r, s) ==
    [r EXCEPT !.pc = r.pc + 1,
              !.printed = r.printed \/ WritesText(s),
              !.newlines = IF IsNewline(s) THEN r.newlines \cup {r.pc} ELSE r.newlines]

\* the feature lists of __tests__/fixtures/mock-configs.ts, lists of one
\* feature, and a list of usage features only
RunFeatureLists ==
    { <<"directory", "git">>,
      <<"directory", "git", "model", "usage", "session", "cache", "context">>,
      <<"directory", "git", "usage">>,
      <<"directory", "cpu", "memory", "load">>,
      <<"directory", "git", "model", "cpu", "memory", "load", "usage", "session",
        "cache", "context", "burnrate", "tokens", "projections", "alerts">>,
      <<"usage", "session", "tokens", "burnrate", "cache", "projections">>,
      <<"cpu">>, <<"usage">>, <<"git">> }

RunConfigs ==
    [features : RunFeatureLists, theme : Themes, colors : BOOLEAN,
     ccusageIntegration : BOOLEAN, customEmojis : {FALSE}, logging : {FALSE},
     refreshRate : {0}]

running == run.pc >= 1 /\ run.pc <= Len(run.program)

finished == run.pc > Len(run.program)

statement == run.program[run.pc]

\* a script is generated and started; content_displayed=0 is set by the
\* content tracking code before the display code
InitRun ==
    /\ OptIdle
    /\ GenIdle
    /\ FileIdle
    /\ MoreIdle
    /\ \E config \in RunConfigs :
       \E program \in {DisplayStatements(generateBashStatusline(config, 0, {}).script)} :
       \E env \in SubsetsUpTo(RuntimeTests(program), MaxNonEmpty) :
          run = [program |-> program, pc |-> 1, env |-> env, skip |-> 0,
                 content_displayed |-> 0, printed |-> FALSE, newlines |-> {}]

\* a comment, an assignment, or a statement of a branch that is not taken
RunSkip ==
    /\ running
    /\ \/ Kind(statement) = "other"
       \/ run.skip > 0 /\ Kind(statement) \in {"printf", "test", "set"}
    /\ run' = [run EXCEPT !.pc = run.pc + 1]
    /\ UNCHANGED <<optVars, genVars, fileVars, moreVars>>

RunIf ==
    /\ running
    /\ Kind(statement) = "if"
    /\ run' = [run EXCEPT !.pc = run.pc + 1,
                          !.skip = IF run.skip > 0 THEN run.skip + 1
                                   ELSE IF Test(statement, run) THEN 0 ELSE 1]
    /\ UNCHANGED <<optVars, genVars, fileVars, moreVars>>

RunElse ==
    /\ running
    /\ Kind(statement) = "else"
    /\ run' = [run EXCEPT !.pc = run.pc + 1,
                          !.skip = IF run.skip = 0 THEN 1
                                   ELSE IF run.skip = 1 THEN 0 ELSE run.skip]
    /\ UNCHANGED <<optVars, genVars, fileVars, moreVars>>

RunFi ==
    /\ running
    /\ Kind(statement) = "fi"
    /\ run' = [run EXCEPT !.pc = run.pc + 1,
                          !.skip = IF run.skip > 0 THEN run.skip - 1 ELSE 0]
    /\ UNCHANGED <<optVars, genVars, fileVars, moreVars>>

RunPrintf ==
    /\ running
    /\ Kind(statement) = "printf"
    /\ run.skip = 0
    /\ run' = Printed(run, statement)
    /\ UNCHANGED <<optVars, genVars, fileVars, moreVars>>

\* [[ test ]] && printf ...
RunTestPrintf ==
    /\ running
    /\ Kind(statement) = "test"
    /\ run.skip = 0
    /\ run' = IF Test(statement, run) THEN Printed(run, statement)
              ELSE [run EXCEPT !.pc = run.pc + 1]
    /\ UNCHANGED <<optVars, genVars, fileVars, moreVars>>

RunSetFlag ==
    /\ running
    /\ Kind(statement) = "set"
    /\ run.skip = 0
    /\ run' = [run EXCEPT !.pc = run.pc + 1, !.content_displayed = 1]
    /\ UNCHANGED <<optVars, genVars, fileVars, moreVars>>

NextRun ==
    \/ RunSkip
    \/ RunIf
    \/ RunElse
    \/ RunFi
    \/ RunPrintf
    \/ RunTestPrintf
    \/ RunSetFlag

SpecRun == InitRun /\ [][NextRun]_vars

\* the run is at the final check "if [[ $content_displayed -eq 1 ]]"
AtFinalCheck ==
    /\ running
    /\ run.skip = 0
    /\ Kind(statement) = "if"
    /\ TestsOf(statement) = {"$content_displayed -eq 1"}

\* C9: when the final check runs, content_displayed is 1 if and only if a
\* feature's display code has printed something.
C9_FlagIffPrinted ==
    AtFinalCheck => (run.content_displayed = 1 <=> run.printed)

\* statement p of the program is the printf that the final check guards
Guarded(program, p) ==
    /\ p > 1
    /\ Kind(program[p - 1]) = "if"
    /\ TestsOf(program[p - 1]) = {"$content_displayed -eq 1"}

\* C10: the only statement of a run that prints a line terminator is the
\* final printf guarded by the content_displayed check, so a run in which no
\* feature printed anything ends without having printed a line terminator.
C10_OnlyGuardedNewline ==
    /\ \A p \in run.newlines : Guarded(run.program, p)
    /\ (finished /\ ~run.printed) => run.newlines = {}

----------------------------------------------------------------------------
(* The rate limiter of the emitted script (generateRateLimitingCode) over   *)
(* sequential invocations.  file is the content of                          *)
(* ~/.claude/statusline_rate_limit.tmp (-1: no file), tmp the content of    *)
(* the fallback file under /tmp, clock the value of EPOCHSECONDS, which is  *)
(* wall-clock time and can be set back.                                     *)

min_interval == 0

MaxRateClock == 3

WriteOutcomes == {"ok", "fallback", "fail"}

\* the limiter with the timestamp written before the check
rateLimitWriteFirst(file, tmp, current_time, readOk, recreateOk, write) ==
    LET last_time == IF readOk THEN file ELSE 0
    IN  IF file >= 0 /\ ~readOk /\ ~recreateOk
        THEN [exit |-> "error", status |-> 1, file |-> file, tmp |-> tmp]
        ELSE IF file >= 0 /\ current_time - last_time < min_interval
        THEN [exit |-> "limited", status |-> 0, file |-> current_time, tmp |-> tmp]
        ELSE [exit |-> "display", status |-> 0,
              file |-> IF write = "ok" THEN current_time
                       ELSE IF file >= 0 /\ ~readOk THEN 0 ELSE file,
              tmp  |-> IF write = "fallback" THEN current_time ELSE tmp]

\* one pass through the limiter at current_time: how the script goes on
\* (exit "limited": exit 0 before the display code; "error": exit 1 from
\* handle_statusline_error; "display": the script continues) and the files
\* afterwards.  readOk: cat of the file succeeds; recreateOk: the file can
\* be recreated after a failed read; write: the timestamp is written (ok),
\* written to the fallback file because mkdir failed, or not written.
rateLimit(file, tmp, current_time, readOk, recreateOk, write) ==
    LET last_time == IF readOk THEN file ELSE 0
    IN  IF file >= 0 /\ ~readOk /\ ~recreateOk
        THEN [exit |-> "error", status |-> 1, file |-> file, tmp |-> tmp]
        ELSE IF file >= 0 /\ current_time - last_time < min_interval
        THEN [exit |-> "limited", status |-> 0,
              file |-> IF readOk THEN file ELSE 0, tmp |-> tmp]
        ELSE [exit |-> "display", status |-> 0,
              file |-> IF write = "ok" THEN current_time
                       ELSE IF file >= 0 /\ ~readOk THEN 0 ELSE file,
              tmp  |-> IF write = "fallback" THEN current_time ELSE tmp]

InitRate ==
    /\ OptIdle
    /\ GenIdle
    /\ FileIdle
    /\ RunIdle
    /\ ValidationIdle
    /\ RetryIdle
    /\ InstallIdle
    /\ SysIdle
    /\ rate = NoRate

notRate == <<optVars, genVars, fileVars, runVars, validation, retry, install, sys>>

RateTick ==
    /\ rate.clock < MaxRateClock
    /\ rate' = [rate EXCEPT !.clock = rate.clock + 1]
    /\ UNCHANGED notRate

\* the wall clock is set back
RateSetBack ==
    /\ rate.clock > 0
    /\ rate' = [rate EXCEPT !.clock = rate.clock - 1]
    /\ UNCHANGED notRate

\* one invocation of the script, from its start to the display code or to
\* its early exit
Invoke(readOk, recreateOk, write) ==
    /\ \E r \in {rateLimit(rate.file, rate.tmp, rate.clock, readOk, recreateOk, write)} :
          rate' = [rate EXCEPT
                      !.file = r.file,
                      !.tmp  = r.tmp,
                      !.last = [exit |-> r.exit, status |-> r.status, at |-> rate.clock,
                                before |-> rate.file,
                                read |-> rate.file >= 0 /\ readOk,
                                write |-> IF r.exit = "display" THEN write ELSE "none"],
                      !.prev = IF rate.last.exit = "display" /\ rate.last.write = "ok"
                               THEN rate.last.at
                               ELSE IF rate.last.exit = "display" THEN -1
                               ELSE rate.prev]
    /\ UNCHANGED notRate

NextRate ==
    \/ RateTick
    \/ RateSetBack
    \/ \E readOk, recreateOk \in BOOLEAN : \E write \in WriteOutcomes :
          Invoke(readOk, recreateOk, write)

SpecRate == InitRate /\ [][NextRate]_vars

----------------------------------------------------------------------------
(* validateConfig (utils/validator.ts).  A configuration is a record; a     *)
(* boolean field holds "true", "false", "undefined" or "notBoolean" (its    *)
(* typeof); systemMonitoring has a kind (undefined, notObject, object) and  *)
(* numeric fields, where -1 also stands for a value that is not a number;   *)
(* notBoolean and notObject stand for a non-empty string.                   *)
(* An error or warning is the fixed part of its message.                    *)

validFeatures ==
    {"directory", "git", "model", "cpu", "memory", "load", "usage", "session",
     "tokens", "burnrate"}

validRuntimes == {"bash", "python", "node"}

validThemes == {"minimal", "detailed", "compact"}

booleanFields == <<"colors", "ccusageIntegration", "logging", "customEmojis">>

NotArray == <<"not an array">>

\* errors.push that keeps only the first error
PushFirstOnly(list, items) == IF list = <<>> THEN items ELSE list

\* errors.push(...items)
Push(list, items) == list \o items

Truthy(value) == value = "true"

featureErrors(config) ==
    IF config.features = NotArray THEN <<"Features must be an array">>
    ELSE IF Len(config.features) = 0
    THEN <<"At least one display feature must be selected">>
    ELSE IF \E i \in 1..Len(config.features) : config.features[i] \notin validFeatures
    THEN <<"Invalid features">>
    ELSE <<>>

runtimeErrors(config) ==
    IF config.runtime \notin validRuntimes THEN <<"Invalid runtime">> ELSE <<>>

themeErrors(config) ==
    IF config.theme \notin validThemes THEN <<"Invalid theme">> ELSE <<>>

booleanErrors(config) ==
    SelectSeq(booleanFields, LAMBDA field : config[field] = "notBoolean")

Outside(n, lo, hi) == n < lo \/ n > hi

systemMonitoringErrors(config) ==
    LET m == config.systemMonitoring
    IN  IF m.kind = "undefined" THEN <<>>
        ELSE IF m.kind = "notObject" THEN <<"systemMonitoring must be an object">>
        ELSE (IF Outside(m.refreshRate, 100, 60000)
              THEN <<"systemMonitoring.refreshRate">> ELSE <<>>)
             \o (IF Outside(m.cpuThreshold, 0, 100)
                 THEN <<"systemMonitoring.cpuThreshold">> ELSE <<>>)
             \o (IF Outside(m.memoryThreshold, 0, 100)
                 THEN <<"systemMonitoring.memoryThreshold">> ELSE <<>>)
             \o (IF Outside(m.loadThreshold, 0, 50)
                 THEN <<"systemMonitoring.loadThreshold">> ELSE <<>>)

configWarnings(config) ==
    LET list == IF config.features = NotArray THEN <<>> ELSE config.features
        hasUsageFeatures ==
            \E i \in 1..Len(list) : list[i] \in {"usage", "session", "tokens", "burnrate"}
        hasSystemFeatures ==
            \E i \in 1..Len(list) : list[i] \in {"cpu", "memory", "load"}
        featureCount == Len(list)
    IN  (IF hasUsageFeatures /\ ~Truthy(config.ccusageIntegration)
         THEN <<"ccusage integration is disabled">> ELSE <<>>)
        \o (IF hasSystemFeatures /\ config.systemMonitoring.kind = "undefined"
            THEN <<"systemMonitoring configuration is missing">> ELSE <<>>)
        \o (IF featureCount > 7 THEN <<"Consider reducing to 5-7 features">>
            ELSE IF featureCount > 5 THEN <<"This may slightly impact statusline performance">>
            ELSE <<>>)
        \o (IF config.customEmojis \in {"true", "notBoolean"} /\ ~Truthy(config.colors)
            THEN <<"Custom emojis enabled but colors disabled">> ELSE <<>>)
        \o (IF config.theme = "compact" /\ featureCount > 6
            THEN <<"Compact theme with many features">> ELSE <<>>)
        \o (IF config.runtime # "bash" THEN <<"bash is the most tested">> ELSE <<>>)

validateConfig(config) ==
    IF ~config.isObject
    THEN [isValid |-> FALSE, errors |-> <<"Configuration must be a valid object">>,
          warnings |-> <<>>]
    ELSE LET errors ==
                 Push(Push(Push(Push(Push(<<>>, featureErrors(config)),
                                     runtimeErrors(config)),
                                themeErrors(config)),
                           booleanErrors(config)),
                      systemMonitoringErrors(config))
         IN  [isValid |-> Len(errors) = 0, errors |-> errors,
              warnings |-> configWarnings(config)]

\* the features that generateBashStatusline reads (bash-generator.ts)
generatorFeatures ==
    {"directory", "git", "model", "cpu", "memory", "load", "usage", "session",
     "tokens", "burnrate", "cache", "projections", "context", "alerts"}

\* the feature lists of the fixtures and of the tests
ValFeatureLists ==
    { NotArray, <<>>,
      <<"directory", "git">>,
      <<"directory", "git", "model", "usage", "session", "cache", "context">>,
      <<"directory", "git", "usage">>,
      <<"directory", "cpu", "memory", "load">>,
      <<"directory", "git", "model", "cpu", "memory", "load", "usage", "session",
        "cache", "context", "burnrate", "tokens", "projections", "alerts">>,
      <<"directory", "git", "model", "cpu", "memory", "load", "usage">>,
      <<"directory", "git", "model", "cpu", "memory", "load", "usage", "session">>,
      <<"directory", "weather">> }

NoMonitoring ==
    [kind |-> "undefined", refreshRate |-> -1, cpuThreshold |-> -1,
     memoryThreshold |-> -1, loadThreshold |-> -1]

Monitorings ==
    {NoMonitoring, [NoMonitoring EXCEPT !.kind = "notObject"]}
    \cup [kind : {"object"}, refreshRate : {99, 100, 60000, 60001},
          cpuThreshold : {80, 101}, memoryThreshold : {85}, loadThreshold : {2, 51}]

ValConfigs ==
    [isObject : {TRUE}, features : ValFeatureLists,
     runtime : {"bash", "node", "invalid"}, theme : validThemes \cup {"invalid"},
     colors : {"true", "false"}, ccusageIntegration : {"true", "false"},
     logging : {"false", "undefined"}, customEmojis : {"true", "false", "notBoolean"},
     systemMonitoring : Monitorings]
    \cup {[isObject |-> FALSE]}

InitVal ==
    /\ OptIdle
    /\ GenIdle
    /\ FileIdle
    /\ RunIdle
    /\ RateIdle
    /\ RetryIdle
    /\ InstallIdle
    /\ SysIdle
    /\ \E config \in ValConfigs :
          validation = [phase |-> "called", config |-> config, result |-> NoResult]

Validate ==
    /\ validation.phase = "called"
    /\ validation' = [validation EXCEPT !.phase = "returned",
                                        !.result = validateConfig(validation.config)]
    /\ UNCHANGED <<optVars, genVars, fileVars, runVars, rate, retry, install, sys>>

NextVal == Validate

SpecVal == InitVal /\ [][NextVal]_vars

\* the rules of validateConfig that configuration c violates
ViolatedRules(c) ==
    (IF c.features = NotArray \/ c.features = <<>>
             \/ \E i \in 1..Len(c.features) : c.features[i] \notin validFeatures
          THEN {"features"} ELSE {})
    \cup (IF c.runtime \notin validRuntimes THEN {"runtime"} ELSE {})
    \cup (IF c.theme \notin validThemes THEN {"theme"} ELSE {})
    \cup {booleanFields[i] : i \in {j \in 1..Len(booleanFields) :
                                        c[booleanFields[j]] = "notBoolean"}}
    \cup (IF c.systemMonitoring.kind = "notObject" THEN {"systemMonitoring"} ELSE {})
    \cup (IF c.systemMonitoring.kind = "object"
          THEN (IF Outside(c.systemMonitoring.refreshRate, 100, 60000)
                THEN {"refreshRate"} ELSE {})
               \cup (IF Outside(c.systemMonitoring.cpuThreshold, 0, 100)
                     THEN {"cpuThreshold"} ELSE {})
               \cup (IF Outside(c.systemMonitoring.memoryThreshold, 0, 100)
                     THEN {"memoryThreshold"} ELSE {})
               \cup (IF Outside(c.systemMonitoring.loadThreshold, 0, 50)
                     THEN {"loadThreshold"} ELSE {})
          ELSE {})

----------------------------------------------------------------------------
(* withRetry and createFileSystemRetry (utils/retry.ts).  An error message  *)
(* is a sequence of pieces; message.includes(code) is true when the code is *)
(* one of the pieces.  retry.retryIf names the predicate of the merged      *)
(* options: "default" (DEFAULT_RETRY_OPTIONS), "fileSystem"                 *)
(* (createFileSystemRetry), "custom" (the caller's: anything but a          *)
(* validation error) or "none" (overridden with undefined).                 *)

MaxRetriesBound == 2

includes(message, piece) == \E i \in 1..Len(message) : message[i] = piece

retryIfDefault(message) ==
    \/ includes(message, "ENOENT")
    \/ includes(message, "EACCES")
    \/ includes(message, "EMFILE")
    \/ includes(message, "EAGAIN")
    \/ includes(message, "timeout")

\* a predicate that accepts every error
retryIfAnyError(message) == TRUE

retryIfFileSystem(message) ==
    \/ includes(message, "ENOENT")
    \/ includes(message, "EACCES")
    \/ includes(message, "EMFILE")
    \/ includes(message, "EAGAIN")
    \/ includes(message, "EBUSY")

retryIfCustom(message) == ~includes(message, "Validation")

\* config.retryIf && !config.retryIf(lastError)
stopsRetry(retryIf, message) ==
    CASE retryIf = "none"       -> FALSE
      [] retryIf = "default"    -> ~retryIfDefault(message)
      [] retryIf = "fileSystem" -> ~retryIfFileSystem(message)
      [] retryIf = "custom"     -> ~retryIfCustom(message)

\* a successful attempt that does not end the loop
afterSuccessContinue(r, value) ==
    [r EXCEPT !.calls = r.calls + 1, !.successes = r.successes + 1,
              !.value = value,
              !.attempt = r.attempt + 1,
              !.phase = IF r.attempt = r.maxRetries THEN "resolved" ELSE "running"]

\* return await operation()
afterSuccess(r, value) ==
    [r EXCEPT !.calls = r.calls + 1, !.successes = r.successes + 1,
              !.value = value, !.phase = "resolved"]

\* the catch block
afterFailure(r, message) ==
    [r EXCEPT !.calls = r.calls + 1,
              !.thrown = Append(r.thrown, message),
              !.error = message,
              !.phase = IF r.attempt = r.maxRetries THEN "rejected"
                        ELSE IF stopsRetry(r.retryIf, message) THEN "rejected"
                        ELSE "sleeping"]

ErrorMessages ==
    {<<code, ": file system error">> :
        code \in {"ENOENT", "EACCES", "EMFILE", "EAGAIN", "EBUSY"}}
    \cup {<<"timeout">>, <<"JSON parse error">>, <<"Validation", " error">>}

InitRetry ==
    /\ OptIdle
    /\ GenIdle
    /\ FileIdle
    /\ RunIdle
    /\ RateIdle
    /\ ValidationIdle
    /\ InstallIdle
    /\ SysIdle
    /\ \E maxRetries \in 0..MaxRetriesBound :
       \E retryIf \in {"default", "fileSystem", "custom", "none"} :
          retry = [NoRetry EXCEPT !.phase = "running", !.maxRetries = maxRetries,
                                  !.retryIf = retryIf]

notRetry == <<optVars, genVars, fileVars, runVars, rate, validation, install, sys>>

\* operation() resolves
AttemptSucceeds ==
    /\ retry.phase = "running"
    /\ retry.attempt <= retry.maxRetries
    /\ retry' = afterSuccess(retry, "success")
    /\ UNCHANGED notRetry

\* operation() rejects with an error
AttemptFails(message) ==
    /\ retry.phase = "running"
    /\ retry.attempt <= retry.maxRetries
    /\ retry' = afterFailure(retry, message)
    /\ UNCHANGED notRetry

\* await sleep(delay), then the next round of the loop
RetrySleep ==
    /\ retry.phase = "sleeping"
    /\ retry' = [retry EXCEPT !.attempt = retry.attempt + 1, !.phase = "running"]
    /\ UNCHANGED notRetry

NextRetry ==
    \/ AttemptSucceeds
    \/ \E message \in ErrorMessages : AttemptFails(message)
    \/ RetrySleep

SpecRetry == InitRetry /\ [][NextRetry]_vars

----------------------------------------------------------------------------
(* installStatusline, updateSettingsJson (utils/installer.ts) and the       *)
(* writing part of initCommand (cli/commands.ts).  A JSON value is a record *)
(* with its type t, a string (pieces), a number, and members <<key, value>> *)
(* in insertion order; an array keeps its items as members with index keys  *)
(* and the named properties assigned to it in extra.  A file is missing,    *)
(* unreadable, or a text that is or is not valid JSON.                      *)

ScriptMode == 493    \* 0o755

Str(pieces) == [t |-> "string", str |-> pieces, num |-> 0, obj |-> <<>>, extra |-> <<>>]
Num(n) == [t |-> "number", str |-> <<>>, num |-> n, obj |-> <<>>, extra |-> <<>>]
Null == [t |-> "null", str |-> <<>>, num |-> 0, obj |-> <<>>, extra |-> <<>>]
Obj(members) == [t |-> "object", str |-> <<>>, num |-> 0, obj |-> members, extra |-> <<>>]
IndexKeys == <<"0", "1">>

Arr(items) ==
    [t |-> "array", str |-> <<>>, num |-> 0,
     obj |-> [i \in 1..Len(items) |-> <<IndexKeys[i], items[i]>>], extra |-> <<>>]

Keys(members) == {members[i][1] : i \in 1..Len(members)}

Member(members, key) ==
    members[CHOOSE i \in 1..Len(members) : members[i][1] = key][2]

\* an assignment that forgets the members already there
assignFresh(members, key, value) == << <<key, value>> >>

\* object[key] = value: an own key keeps its place, a new key goes last
assign(members, key, value) ==
    IF key \in Keys(members)
    THEN [i \in 1..Len(members) |->
            IF members[i][1] = key THEN <<key, value>> ELSE members[i]]
    ELSE Append(members, <<key, value>>)

\* { type: 'command', command: `.claude/${scriptName}`, padding: 0 }
statusLine(scriptName) ==
    Obj(<< <<"type", Str(<<"command">>)>>,
           <<"command", Str(<<".claude/", scriptName>>)>>,
           <<"padding", Num(0)>> >>)

\* settings.statusLine = ... in strict mode: a TypeError on null or on a
\* primitive, a named property on an array
canAssign(settings) == settings.t \in {"object", "array"}

setStatusLine(settings, scriptName) ==
    IF settings.t = "object"
    THEN [settings EXCEPT !.obj = assign(settings.obj, "statusLine", statusLine(scriptName))]
    ELSE [settings EXCEPT !.extra = assign(settings.extra, "statusLine", statusLine(scriptName))]

\* JSON.stringify: the named properties of an array are not written
stringify(value) == [state |-> "text", valid |-> TRUE, value |-> [value EXCEPT !.extra = <<>>]]

\* fileRetry(readFile) followed by JSON.parse; any failure starts from {}
readSettings(file) ==
    IF file.state = "text" /\ file.valid THEN file.value ELSE Obj(<<>>)

updateSettingsJson(file, scriptName, writeOk) ==
    LET settings == readSettings(file)
    IN  IF ~canAssign(settings)
        THEN [result |-> "SETTINGS_UPDATE_FAILED", file |-> file,
              log |-> <<"readSettings">>]
        ELSE IF ~writeOk
        THEN [result |-> "SETTINGS_UPDATE_FAILED", file |-> file,
              log |-> <<"readSettings", "writeSettings">>]
        ELSE [result |-> "ok", file |-> stringify(setStatusLine(settings, scriptName)),
              log |-> <<"readSettings", "writeSettings">>]

\* a failed step leaves the try block
afterStepAlways(ok, next) == next

afterStep(ok, next) == IF ok THEN next ELSE "failed"

OldStatusLine ==
    Obj(<< <<"type", Str(<<"old">>)>>, <<"command", Str(<<"old-command">>)>> >>)

SettingsValues ==
    { Obj(<<>>),
      Obj(<< <<"otherSetting", Str(<<"value">>)>> >>),
      Obj(<< <<"otherSetting", Str(<<"value">>)>>, <<"statusLine", OldStatusLine>> >>),
      Obj(<< <<"statusLine", OldStatusLine>>, <<"theme", Str(<<"dark">>)>>,
             <<"otherSetting", Str(<<"value">>)>> >>),
      Arr(<<>>),
      Arr(<<Str(<<"value">>)>>),
      Null,
      Str(<<"value">>) }

SettingsFiles ==
    {NoFile, [NoFile EXCEPT !.state = "unreadable"], [NoFile EXCEPT !.state = "text"]}
    \cup {[state |-> "text", valid |-> TRUE, value |-> v] : v \in SettingsValues}

ScriptNames == {"statusline.sh", "my-statusline.sh"}

InstallScript == <<"#!/bin/bash", "echo \"test statusline\"">>

InitInstall ==
    /\ OptIdle
    /\ GenIdle
    /\ FileIdle
    /\ RunIdle
    /\ RateIdle
    /\ ValidationIdle
    /\ RetryIdle
    /\ SysIdle
    /\ \E entry \in {"installStatusline", "initCommand"} :
       \E doInstall \in BOOLEAN :
       \E scriptName \in ScriptNames :
       \E file \in SettingsFiles :
       \E dir \in BOOLEAN :
          /\ entry = "installStatusline" => doInstall
          /\ file.state # "missing" => dir
          /\ install = [NoInstall EXCEPT !.phase = "start", !.entry = entry,
                                         !.doInstall = doInstall,
                                         !.scriptName = scriptName, !.dir = dir,
                                         !.before = file, !.settings = file]

notInstall == <<optVars, genVars, fileVars, runVars, rate, validation, retry, sys>>

\* await fileRetry(() => fs.mkdir(dir, { recursive: true }))
Mkdir(ok) ==
    /\ install.phase = "start"
    /\ install' = [install EXCEPT !.log = Append(install.log, "mkdir"),
                                  !.dir = install.dir \/ ok,
                                  !.phase = afterStep(ok, "dirMade")]
    /\ UNCHANGED notInstall

\* await fileRetry(() => fs.writeFile(outputPath, script, { mode: 0o755 }))
WriteScript(ok) ==
    /\ install.phase = "dirMade"
    /\ install' = [install EXCEPT
                      !.log = Append(install.log, "writeScript"),
                      !.script = IF ok /\ install.dir
                                 THEN [exists |-> TRUE, mode |-> ScriptMode,
                                       content |-> InstallScript]
                                 ELSE install.script,
                      !.phase = afterStep(ok /\ install.dir, "scriptWritten")]
    /\ UNCHANGED notInstall

\* await updateSettingsJson(dir, path.basename(outputPath)); initCommand
\* reports a failure and goes on, installStatusline throws
UpdateSettings(writeOk) ==
    /\ install.phase = "scriptWritten"
    /\ install.doInstall
    /\ LET u == updateSettingsJson(install.settings, install.scriptName, writeOk)
       IN  install' = [install EXCEPT
                          !.log = install.log \o u.log,
                          !.settings = u.file,
                          !.result = u.result,
                          !.phase = IF u.result = "ok" \/ install.entry = "initCommand"
                                    THEN "done" ELSE "failed"]
    /\ UNCHANGED notInstall

\* initCommand with --no-install
SkipSettings ==
    /\ install.phase = "scriptWritten"
    /\ ~install.doInstall
    /\ install' = [install EXCEPT !.phase = "done", !.result = "skipped"]
    /\ UNCHANGED notInstall

NextInstall ==
    \/ \E ok \in BOOLEAN : Mkdir(ok)
    \/ \E ok \in BOOLEAN : WriteScript(ok)
    \/ \E writeOk \in BOOLEAN : UpdateSettings(writeOk)
    \/ SkipSettings

SpecInstall == InitInstall /\ [][NextInstall]_vars

Steps(log) == {log[i] : i \in 1..Len(log)}

IsPrefix(a, b) == Len(a) <= Len(b) /\ \A i \in 1..Len(a) : a[i] = b[i]

Written == install.result = "ok"

ExactStatusLine(file) ==
    /\ file.state = "text"
    /\ file.valid
    /\ file.value.t = "object"
    /\ "statusLine" \in Keys(file.value.obj)
    /\ Member(file.value.obj, "statusLine") = statusLine(install.scriptName)

OthersPreserved(old, new) ==
    /\ new.value.t = "object"
    /\ Keys(new.value.obj) \ {"statusLine"} = Keys(old.value.obj) \ {"statusLine"}
    /\ \A key \in Keys(old.value.obj) \ {"statusLine"} :
          Member(new.value.obj, key) = Member(old.value.obj, key)

OnlyStatusLine(file) == Keys(file.value.obj) = {"statusLine"}

ValidJson(file) == file.state = "text" /\ file.valid

C18_StepOrder ==
    /\ IsPrefix(install.log, <<"mkdir", "writeScript", "readSettings", "writeSettings">>)
    /\ ("readSettings" \in Steps(install.log)) =>
          /\ install.dir
          /\ install.script = [exists |-> TRUE, mode |-> ScriptMode, content |-> InstallScript]
    /\ (install.phase = "failed" /\ ~install.script.exists) =>
          /\ install.settings = install.before
          /\ "readSettings" \notin Steps(install.log)
          /\ "writeSettings" \notin Steps(install.log)
    /\ ~install.doInstall => install.settings = install.before

C18_Witness ==
    /\ install.entry = "initCommand"
    /\ install.log = <<"mkdir", "writeScript", "readSettings", "writeSettings">>
    /\ Written
    /\ install.script.mode = ScriptMode

----------------------------------------------------------------------------
(* The system-metrics cache of the emitted script (generateSystemBashCode,  *)
(* features/system.ts), run by two invocations in one working directory.    *)
(* The cache path names an inode or nothing (-1); inode 0 is the file of an *)
(* earlier run, inode p the file invocation p created.  A file is a list of *)
(* lines <<variable, writer>>; each echo of the group writes one line at    *)
(* its descriptor's offset.                                                 *)

MaxSysClock == 2
MaxSysTtl == 2

Invocations == {1, 2}

CacheLines ==
    <<"cpu_percent", "mem_used_gb", "mem_total_gb", "mem_percent",
      "load_1min", "load_5min", "load_15min">>

Hole == <<"", 0>>

NoInode == [lines |-> <<>>, mtime |-> 0]

WholeFile(writer) == [i \in 1..Len(CacheLines) |-> <<CacheLines[i], writer>>]

\* write(2) at an offset: the line is replaced or the file grows, with a
\* hole when the offset lies past the end
WriteAt(lines, k, line) ==
    [i \in 1..(IF k > Len(lines) THEN k ELSE Len(lines)) |->
        IF i = k THEN line
        ELSE IF i <= Len(lines) THEN lines[i] ELSE Hole]

SysProcStart ==
    [pc |-> "start", now |-> 0, cache_time |-> 0, sys_cached |-> 0,
     read |-> FALSE, seen |-> <<>>, fd |-> -1, offset |-> 0]

InitSys ==
    /\ OptIdle
    /\ GenIdle
    /\ FileIdle
    /\ RunIdle
    /\ RateIdle
    /\ ValidationIdle
    /\ RetryIdle
    /\ InstallIdle
    /\ \E ttl \in 1..MaxSysTtl :
       \E old \in BOOLEAN :
          sys = [phase |-> "run", clock |-> 0, ttl |-> ttl,
                 path |-> IF old THEN 0 ELSE -1,
                 inodes |-> [i \in 0..2 |->
                               IF i = 0 /\ old
                               THEN [lines |-> WholeFile(0), mtime |-> 0]
                               ELSE NoInode],
                 proc |-> [p \in Invocations |-> SysProcStart]]

notSys == <<optVars, genVars, fileVars, runVars, rate, validation, retry, install>>

SysTick ==
    /\ sys.phase = "run"
    /\ sys.clock < MaxSysClock
    /\ sys' = [sys EXCEPT !.clock = sys.clock + 1]
    /\ UNCHANGED notSys

\* now=${EPOCHSECONDS:-$(date +%s)}
SysNow(p) ==
    /\ sys.phase = "run"
    /\ sys.proc[p].pc = "start"
    /\ sys' = [sys EXCEPT !.proc[p].now = sys.clock, !.proc[p].pc = "test"]
    /\ UNCHANGED notSys

\* if [[ -f $sys_cache ]]
SysTest(p) ==
    /\ sys.phase = "run"
    /\ sys.proc[p].pc = "test"
    /\ sys' = [sys EXCEPT !.proc[p].pc = IF sys.path # -1 THEN "stat" ELSE "open"]
    /\ UNCHANGED notSys

\* a test that also accepts a file that is exactly sys_ttl seconds old
sysFreshInclusive(now, cache_time, sys_ttl) == now - cache_time <= sys_ttl

\* (( now - cache_time < sys_ttl ))
sysFresh(now, cache_time, sys_ttl) == now - cache_time < sys_ttl

\* cache_time=$(stat ... || echo 0); if (( now - cache_time < sys_ttl ))
SysStat(p) ==
    /\ sys.phase = "run"
    /\ sys.proc[p].pc = "stat"
    /\ LET cache_time == IF sys.path # -1 THEN sys.inodes[sys.path].mtime ELSE 0
       IN  sys' = [sys EXCEPT !.proc[p].cache_time = cache_time,
                              !.proc[p].pc = IF sysFresh(sys.proc[p].now, cache_time,
                                                         sys.ttl)
                                             THEN "read" ELSE "rm"]
    /\ UNCHANGED notSys

\* eval "$(<"$sys_cache")"; sys_cached=1
SysRead(p) ==
    /\ sys.phase = "run"
    /\ sys.proc[p].pc = "read"
    /\ sys' = [sys EXCEPT !.proc[p].read = sys.path # -1,
                          !.proc[p].seen = IF sys.path # -1
                                           THEN sys.inodes[sys.path].lines ELSE <<>>,
                          !.proc[p].sys_cached = 1,
                          !.proc[p].pc = "done"]
    /\ UNCHANGED notSys

\* rm -f "$sys_cache"
SysRm(p) ==
    /\ sys.phase = "run"
    /\ sys.proc[p].pc = "rm"
    /\ sys' = [sys EXCEPT !.path = -1, !.proc[p].pc = "open"]
    /\ UNCHANGED notSys

\* the metrics are collected; { ... } > "$sys_cache" opens the file, which
\* empties it or creates it
SysOpen(p) ==
    /\ sys.phase = "run"
    /\ sys.proc[p].pc = "open"
    /\ LET inode == IF sys.path # -1 THEN sys.path ELSE p
       IN  sys' = [sys EXCEPT !.path = inode,
                              !.inodes[inode] = [lines |-> <<>>, mtime |-> sys.clock],
                              !.proc[p].fd = inode,
                              !.proc[p].offset = 0,
                              !.proc[p].pc = "write"]
    /\ UNCHANGED notSys

\* echo "name=$name", one line of the group
SysEcho(p) ==
    /\ sys.phase = "run"
    /\ sys.proc[p].pc = "write"
    /\ LET k == sys.proc[p].offset + 1
           fd == sys.proc[p].fd
       IN  sys' = [sys EXCEPT
                      !.inodes[fd] = [lines |-> WriteAt(sys.inodes[fd].lines, k,
                                                        <<CacheLines[k], p>>),
                                      mtime |-> sys.clock],
                      !.proc[p].offset = k,
                      !.proc[p].pc = IF k = Len(CacheLines) THEN "done" ELSE "write"]
    /\ UNCHANGED notSys

NextSys ==
    \/ SysTick
    \/ \E p \in Invocations :
          \/ SysNow(p)
          \/ SysTest(p)
          \/ SysStat(p)
          \/ SysRead(p)
          \/ SysRm(p)
          \/ SysOpen(p)
          \/ SysEcho(p)

SpecSys == InitSys /\ [][NextSys]_vars

Complete(lines) == \E writer \in 0..2 : lines = WholeFile(writer)

\* C20: an invocation that reads the system-metrics cache file never sees an
\* empty or partially written file: what it reads is the complete contents
\* one writer produced.
C20_ReadsCompleteFile ==
    \A p \in Invocations :
        (sys.phase = "run" /\ sys.proc[p].read) => Complete(sys.proc[p].seen)

----------------------------------------------------------------------------
(* generateBashStatusline with a step that throws.  The function has no     *)
(* try block: an exception of generateFeatureHash, of the generator of one  *)
(* part or of optimizeBashCode leaves it at once.  throwAt names the step:  *)
(* "none", "hash", "optimize", or "part" with the index of the part.        *)

ThrowPoints ==
    {[step |-> st, part |-> 0] : st \in {"none", "hash", "optimize"}}
    \cup {[step |-> "part", part |-> k] : k \in {1, 14, 16}}

\* the text of the parts built before part k
partialScript(config, now, k) ==
    Bind(scriptParts(config, now), LAMBDA ps :
        JoinParts([i \in 1..(k - 1) |-> ps[i]]))

\* a function that stores what it has built so far before it fails
afterThrowStoring(cache, key, partial) == setInMemory(cache, key, partial)

\* the exception leaves the function: nothing is stored
afterThrow(cache, key, partial) == cache

\* the outcome of a call that ran to its end
completed(r) == [script |-> r.script, cache |-> r.cache, threw |-> FALSE]

\* the outcome of a call that an exception left
thrown(cache) == [script |-> NoScript, cache |-> cache, threw |-> TRUE]

\* the outcome of a call whose step throwAt throws, r being what the call
\* returns when nothing throws: a script of the template table or of the
\* memory cache is returned before the later steps run
generateBashStatuslineOrThrow(r, config, cache, throwAt, partial) ==
    IF generateOptimizedBashStatusline(config) # NoScript THEN completed(r)
    ELSE IF throwAt.step = "hash" THEN thrown(cache)
    ELSE IF \/ throwAt.step = "none"
            \/ getFromMemory(cache, generateCacheKey("template", templateHash(config)))
                  # NoScript
    THEN completed(r)
    ELSE thrown(afterThrow(cache, generateCacheKey("template", templateHash(config)),
                           partial))

\* what the call has built when the step throws
builtBefore(config, now, throwAt) ==
    IF throwAt.step = "part" THEN partialScript(config, now, throwAt.part)
    ELSE IF throwAt.step = "optimize" THEN rawScript(config, now)
    ELSE NoScript

FaultConfigs == {c \in GenConfigs : Len(c.features) <= 1 /\ c.refreshRate = 0}

FaultCall(config, r, now, cache, throwAt) ==
    [config |-> config, script |-> r.script, at |-> now,
     hit |-> getFromMemory(cache, generateCacheKey("template", templateHash(config)))
             # NoScript,
     threw |-> r.threw, throwAt |-> throwAt]

InitFault ==
    /\ OptIdle
    /\ GenIdle
    /\ FileIdle
    /\ RunIdle
    /\ MoreIdle

FaultFirst(config, throwAt) ==
    /\ stage = "idle"
    /\ \E d \in {generateBashStatusline(config, clock, memoryCache)} :
       \E r \in {generateBashStatuslineOrThrow(d, config, memoryCache, throwAt,
                       builtBefore(config, clock, throwAt))} :
          /\ first' = FaultCall(config, r, clock, memoryCache, throwAt)
          /\ memoryCache' = r.cache
    /\ stage' = "one"
    /\ UNCHANGED <<clock, second, optVars, fileVars, runVars, moreVars>>

\* the caller tries again
FaultSecond(config, throwAt) ==
    /\ stage = "one"
    /\ \E d \in {generateBashStatusline(config, clock, memoryCache)} :
       \E r \in {generateBashStatuslineOrThrow(d, config, memoryCache, throwAt,
                       builtBefore(config, clock, throwAt))} :
          /\ second' = FaultCall(config, r, clock, memoryCache, throwAt)
          /\ memoryCache' = r.cache
    /\ stage' = "two"
    /\ UNCHANGED <<clock, first, optVars, fileVars, runVars, moreVars>>

NextFault ==
    \/ \E config \in FaultConfigs, throwAt \in ThrowPoints : FaultFirst(config, throwAt)
    \/ \E throwAt \in ThrowPoints : FaultSecond(first.config, throwAt)

SpecFault == InitFault /\ [][NextFault]_vars

\* C21: a step of generateBashStatusline that throws fails the whole call:
\* no script text is returned and no entry is stored under the template key
\* of the configuration, so a later call compiles the configuration in full.
C21_ThrowStoresNothing ==
    /\ (stage = "one" /\ first.threw) =>
          /\ first.script = NoScript
          /\ memoryCache = {}
    /\ (stage = "two" /\ second.threw) =>
          /\ second.script = NoScript
          /\ first.threw => memoryCache = {}
    /\ (stage = "two" /\ first.threw /\ ~second.threw) =>
          /\ ~second.hit
          /\ second.script = optimizeBashCode(rawScript(second.config, second.at))

C21_Witness ==
    /\ stage = "two"
    /\ first.threw
    /\ first.throwAt = [step |-> "part", part |-> 14]
    /\ first.config.features = <<"cpu">>
    /\ second.config = first.config
    /\ ~second.threw
    /\ second.script # NoScript

----------------------------------------------------------------------------
(* A run of the statements of an emitted script that set use_color, up to   *)
(* the display section.  The environment: whether standard output is a      *)
(* terminal, whether NO_COLOR and FORCE_COLOR are set, and which branch of  *)
(* the case statement $TERM takes ("color": *color*, xterm*, screen*,       *)
(* tmux*; "dumb": dumb, unknown; "other": anything else).                   *)

ValidateCall == "validate_terminal_output || exit 1"

TermCase == "if (( use_color && ! FORCE_COLOR )); then case \"$TERM\" in ... esac; fi"

ColorAtoms ==
    {ValidateCall, "use_color=0", "use_color=1", "[[ $NO_COLOR ]] && use_color=0",
     "[[ $FORCE_COLOR ]] && use_color=1", TermCase, RenderMarker}

IsColorAtom(a) == a \in ColorAtoms

ColorStatements(script) == Bind(script, LAMBDA t : SelectSeq(t, IsColorAtom))

\* validate_terminal_output called after the color helpers have run
validateLast(st, r) ==
    IF st = RenderMarker /\ ~r.tty THEN 0 ELSE r.use_color

\* validate_terminal_output: if [[ ! -t 1 ]]; then use_color=0
validate(st, r) ==
    IF st = ValidateCall /\ ~r.tty THEN 0 ELSE r.use_color

\* the value of use_color after statement st
colorEffect(st, r) ==
    CASE st = ValidateCall -> validate(st, r)
      [] st = "use_color=0" -> 0
      [] st = "use_color=1" -> 1
      [] st = "[[ $NO_COLOR ]] && use_color=0" -> IF r.NO_COLOR THEN 0 ELSE r.use_color
      [] st = "[[ $FORCE_COLOR ]] && use_color=1" -> IF r.FORCE_COLOR THEN 1 ELSE r.use_color
      [] st = TermCase ->
            IF r.use_color = 1 /\ ~r.FORCE_COLOR
            THEN CASE r.TERM = "color" -> 1
                   [] r.TERM = "dumb"  -> 0
                   [] OTHER            -> IF r.tty THEN r.use_color ELSE 1
            ELSE r.use_color
      \* the display section sets use_color only through a validation
      [] OTHER -> validate(st, r)

TermConfigs ==
    {c \in RunConfigs :
        /\ c.features \in {<<"cpu">>, <<"directory", "git">>}
        /\ c.theme = "detailed"
        /\ c.ccusageIntegration}

InitTerm ==
    /\ OptIdle
    /\ GenIdle
    /\ FileIdle
    /\ MoreIdle
    /\ \E config \in TermConfigs :
       \E program \in {ColorStatements(generateBashStatusline(config, 0, {}).script)} :
       \E tty, no_color, force_color \in BOOLEAN :
       \E term \in {"color", "dumb", "other"} :
          run = [program |-> program, pc |-> 1, colors |-> config.colors,
                 tty |-> tty, NO_COLOR |-> no_color, FORCE_COLOR |-> force_color,
                 TERM |-> term, use_color |-> 0, ansi |-> FALSE]

\* a statement before the display section
TermStatement ==
    /\ run.pc >= 1 /\ run.pc <= Len(run.program)
    /\ run.program[run.pc] # RenderMarker
    /\ run' = [run EXCEPT !.pc = run.pc + 1,
                          !.use_color = colorEffect(run.program[run.pc], run)]
    /\ UNCHANGED <<optVars, genVars, fileVars, moreVars>>

\* the display section: with colors enabled its printf gets "$(dir_clr)" or
\* "$(cpu_clr)", which prints an ANSI sequence when use_color is 1
TermDisplay ==
    /\ run.pc >= 1 /\ run.pc <= Len(run.program)
    /\ run.program[run.pc] = RenderMarker
    /\ run' = [run EXCEPT !.pc = run.pc + 1,
                          !.use_color = colorEffect(RenderMarker, run),
                          !.ansi = run.colors /\ colorEffect(RenderMarker, run) = 1]
    /\ UNCHANGED <<optVars, genVars, fileVars, moreVars>>

NextTerm == TermStatement \/ TermDisplay

SpecTerm == InitTerm /\ [][NextTerm]_vars

\* C22: when standard output is not a terminal, colors are enabled and
\* neither NO_COLOR nor FORCE_COLOR is set, use_color is 0 when the display
\* section runs and no ANSI color sequence is printed.
C22_NoColorOffTerminal ==
    (/\ run.pc > Len(run.program)
     /\ run.colors
     /\ ~run.tty
     /\ ~run.NO_COLOR
     /\ ~run.FORCE_COLOR)
        => (run.use_color = 0 /\ ~run.ansi)

----------------------------------------------------------------------------
(* One compilation per configuration, over every feature that the           *)
(* generator knows: the script of generateBashStatusline in a fresh         *)
(* process, its text before optimization, and its display section.          *)

MaxShown == 3

UsageFamily ==
    {"usage", "session", "tokens", "burnrate",
     "cache", "projections", "context", "alerts"}

SystemFamily == {"cpu", "memory", "load"}

AllFeatures ==
    <<"directory", "git", "model", "cpu", "memory", "load", "usage", "session",
      "tokens", "burnrate", "cache", "projections", "context", "alerts">>

\* the feature list that holds the names of S
ListOf(S) == SelectSeq(AllFeatures, LAMBDA f : f \in S)

ShowConfigs ==
    {[features |-> ListOf(S), theme |-> "detailed", colors |-> colors,
      ccusageIntegration |-> TRUE, customEmojis |-> FALSE, logging |-> logging,
      refreshRate |-> 0] :
        S \in {T \in SUBSET FeatureSet([features |-> AllFeatures]) :
                  Cardinality(T) <= MaxShown},
        colors \in BOOLEAN, logging \in BOOLEAN}

InitShow ==
    /\ Init

\* generateBashStatusline(config) at time 0 with an empty memory cache
Show(config) ==
    /\ stage = "idle"
    /\ \E r \in {generateBashStatusline(config, 0, {})} :
          first' = [config |-> config, script |-> r.script,
                    raw |-> rawScript(config, 0),
                    query |-> IF usageConfig(config).enabled
                              THEN usageBashText(usageConfig(config), config.colors)
                              ELSE <<>>]
    /\ second' = generateDisplaySection(config)
    /\ stage' = "shown"
    /\ UNCHANGED <<clock, memoryCache, optVars, fileVars, runVars, moreVars>>

NextShow == \E config \in ShowConfigs : Show(config)

SpecShow == InitShow /\ [][NextShow]_vars

DirectoryMarkers == {"'<folder> %s%s%s'", "'dir: %s%s%s'"}

GitMarkers == {"# git"}

ModelMarkers == {"'  <robot> %s%s%s'", "'  model: %s%s%s'"}

CpuMarkers == {"# cpu usage"}

MemoryMarkers == {"# memory usage (detailed)", "# memory usage (compact)"}

LoadMarkers ==
    {"# system load (detailed with context)", "# system load (compact with status)"}

SystemMarkers == CpuMarkers \cup MemoryMarkers \cup LoadMarkers

\* the comment lines that start the blocks of generateUsageDisplayCode
UsageDisplayMarkers ==
    {"# session time", "# cost with smart projection integration", "# tokens",
     "# cache efficiency", "# projections (standalone when cost not shown)",
     "# time projection (when cost already shown)",
     "# context usage with integrated alerts",
     "# efficiency alerts (standalone when context not shown)",
     "# smart compact usage display (", "# cost with smart formatting"}

\* the number of places of t where the text p starts
Occurrences(t, p) == Cardinality({i \in 1..Len(t) : MatchAt(t, i, p)})

\* C23: the display section renders directory, git, model, the system
\* metrics and the usage metrics in this order; each of directory, git and
\* model is rendered exactly when it is enabled; the system display block is
\* there exactly once when cpu, memory or load is enabled, and no line of it
\* is there otherwise.
C23_DisplayOrder ==
    stage = "shown" =>
        LET c == first.config
            P(markers) == Positions(second, markers)
            block == generateSystemDisplayCode(systemConfig(c),
                                               c.colors /\ ~c.customEmojis)
        IN  /\ Before(P(DirectoryMarkers), P(GitMarkers))
            /\ Before(P(DirectoryMarkers) \cup P(GitMarkers), P(ModelMarkers))
            /\ Before(P(DirectoryMarkers) \cup P(GitMarkers) \cup P(ModelMarkers),
                      P(SystemMarkers))
            /\ Before(P(DirectoryMarkers) \cup P(GitMarkers) \cup P(ModelMarkers)
                          \cup P(SystemMarkers),
                      P(UsageDisplayMarkers))
            /\ Cardinality(P(DirectoryMarkers)) = (IF Has(c, "directory") THEN 1 ELSE 0)
            /\ Cardinality(P(GitMarkers)) = (IF Has(c, "git") THEN 1 ELSE 0)
            /\ Cardinality(P(ModelMarkers)) = (IF Has(c, "model") THEN 1 ELSE 0)
            /\ Cardinality(P(CpuMarkers)) = (IF Has(c, "cpu") THEN 1 ELSE 0)
            /\ Cardinality(P(MemoryMarkers)) = (IF Has(c, "memory") THEN 1 ELSE 0)
            /\ Cardinality(P(LoadMarkers)) = (IF Has(c, "load") THEN 1 ELSE 0)
            /\ hasSystem(c) => block # <<>> /\ Occurrences(second, block) = 1
            /\ ~hasSystem(c) => P(SystemMarkers) = {}

C23_Witness ==
    /\ stage = "shown"
    /\ first.config.features = <<"git", "load", "session">>
    /\ Positions(second, GitMarkers) # {}
    /\ Positions(second, LoadMarkers) # {}
    /\ Positions(second, UsageDisplayMarkers) # {}

\* C24: with ccusage integration enabled, the display section holds the
\* usage display block exactly once when a usage-family feature (usage,
\* session, tokens, burnrate, cache, projections, context, alerts) is
\* enabled, and no line of it otherwise: a script that collects the usage
\* data also displays it.
C24_UsageDisplayedWhenCollected ==
    stage = "shown" /\ first.config.ccusageIntegration =>
        LET c == first.config
            block == generateUsageDisplayCode(usageConfig(c),
                                              c.colors /\ ~c.customEmojis)
        IN  /\ hasUsage(c) => block # <<>> /\ Occurrences(second, block) = 1
            /\ ~hasUsage(c) => Positions(second, UsageDisplayMarkers) = {}
            /\ Positions(first.raw, {"# ---- ccusage integration ----"}) # {}
                   => Positions(second, UsageDisplayMarkers) # {}

\* the shell functions that a line of the emitted script defines (name() {)
\* and invokes (as a command, in a trap or in a $(name) substitution)
ShellFunctions ==
    {
     [atom |-> "handle_statusline_error() { ... EMERGENCY_RESET 2>/dev/null || true; exit 1 }",
      defines |-> {"handle_statusline_error"}, invokes |-> {"EMERGENCY_RESET"}],
     [atom |-> "trap 'handle_statusline_error \"Unexpected termination\"' ERR",
      defines |-> {}, invokes |-> {"handle_statusline_error"}],
     [atom |-> "trap 'restore_terminal_state; exit 0' EXIT",
      defines |-> {}, invokes |-> {"restore_terminal_state"}],
     [atom |-> "# rate limit check: exit 0 when time_diff < min_interval",
      defines |-> {}, invokes |-> {"restore_terminal_state"}],
     [atom |-> "save_terminal_state 2>/dev/null || true",
      defines |-> {}, invokes |-> {"save_terminal_state"}],
     [atom |-> "validate_terminal_output() { ... }",
      defines |-> {"validate_terminal_output"}, invokes |-> {}],
     [atom |-> "safe_printf() { ... }",
      defines |-> {"safe_printf"}, invokes |-> {"validate_terminal_output"}],
     [atom |-> "validate_terminal_output || exit 1",
      defines |-> {}, invokes |-> {"validate_terminal_output"}],
     [atom |-> "C() { :; }",
      defines |-> {"C"}, invokes |-> {}],
     [atom |-> "RST() { :; }",
      defines |-> {"RST"}, invokes |-> {}],
     [atom |-> "save_terminal_state() { ... }",
      defines |-> {"save_terminal_state"}, invokes |-> {}],
     [atom |-> "restore_terminal_state() { ... }",
      defines |-> {"restore_terminal_state"}, invokes |-> {}],
     [atom |-> "C() { ... }",
      defines |-> {"C"}, invokes |-> {}],
     [atom |-> "RST() { ... }",
      defines |-> {"RST"}, invokes |-> {}],
     [atom |-> "EMERGENCY_RESET() { ... }",
      defines |-> {"EMERGENCY_RESET"}, invokes |-> {}],
     [atom |-> "trap 'restore_terminal_state' EXIT INT TERM",
      defines |-> {}, invokes |-> {"restore_terminal_state"}],
     [atom |-> "dir_clr() { C '1;36'; }",
      defines |-> {"dir_clr"}, invokes |-> {"C"}],
     [atom |-> "model_clr() { C '1;35'; }",
      defines |-> {"model_clr"}, invokes |-> {"C"}],
     [atom |-> "ver_clr() { C '1;33'; }",
      defines |-> {"ver_clr"}, invokes |-> {"C"}],
     [atom |-> "rst() { RST; }",
      defines |-> {"rst"}, invokes |-> {"RST"}],
     [atom |-> "to_epoch() { ... }",
      defines |-> {"to_epoch"}, invokes |-> {}],
     [atom |-> "fmt_time_hm() { ... }",
      defines |-> {"fmt_time_hm"}, invokes |-> {}],
     [atom |-> "progress_bar() { ... }",
      defines |-> {"progress_bar"}, invokes |-> {}],
     [atom |-> "num_or_zero() { ... }",
      defines |-> {"num_or_zero"}, invokes |-> {}],
     [atom |-> "has_bc() { command -v bc >/dev/null 2>&1; }",
      defines |-> {"has_bc"}, invokes |-> {}],
     [atom |-> "load_compare() { ... }",
      defines |-> {"load_compare"}, invokes |-> {"has_bc"}],
     [atom |-> "git_clr() { [[ $use_color -eq 1 ]] && printf '\\033[1;32m'; }",
      defines |-> {"git_clr"}, invokes |-> {}],
     [atom |-> "git_clr() { :; }",
      defines |-> {"git_clr"}, invokes |-> {}],
     [atom |-> "usage_clr() ... context_clr()",
      defines |-> {"usage_clr", "cost_clr", "sess_clr", "cache_clr", "proj_clr", "alert_clr", "context_clr"}, invokes |-> {}],
     [atom |-> "usage_clr() { :; } ... context_clr() { :; }",
      defines |-> {"usage_clr", "cost_clr", "sess_clr", "cache_clr", "proj_clr", "alert_clr", "context_clr"}, invokes |-> {}],
     [atom |-> "  # session window: now_sec=",
      defines |-> {}, invokes |-> {"to_epoch", "fmt_time_hm"}],
     [atom |-> "  sess_bar=...",
      defines |-> {}, invokes |-> {"progress_bar"}],
     [atom |-> "cpu_clr() ... sys_clr()",
      defines |-> {"cpu_clr", "mem_clr", "load_clr", "sys_clr"}, invokes |-> {}],
     [atom |-> "cpu_clr() { :; } ... sys_clr() { :; }",
      defines |-> {"cpu_clr", "mem_clr", "load_clr", "sys_clr"}, invokes |-> {}],
     [atom |-> "format_currency() { ... }",
      defines |-> {"format_currency"}, invokes |-> {}],
     [atom |-> "format_number_k() { ... }",
      defines |-> {"format_number_k"}, invokes |-> {}],
     [atom |-> "format_time_compact() { ... }",
      defines |-> {"format_time_compact"}, invokes |-> {}],
     [atom |-> "    formatted_time=$(format_time_compact \"$remaining\" ",
      defines |-> {}, invokes |-> {"format_time_compact"}],
     [atom |-> "  formatted_cost=$(format_currency \"$cost_usd\" ",
      defines |-> {}, invokes |-> {"format_currency"}],
     [atom |-> "  formatted_tpm=$(format_number_k \"$tpm\" ",
      defines |-> {}, invokes |-> {"format_number_k"}],
     [atom |-> "\"$(alert_clr)\" \"$efficiency_alert\" \"$(rst)\"",
      defines |-> {}, invokes |-> {"alert_clr", "rst"}],
     [atom |-> "\"$(cache_clr)\" \"$cache_efficiency\" \"$(rst)\"",
      defines |-> {}, invokes |-> {"cache_clr", "rst"}],
     [atom |-> "\"$(cache_clr)\" \"$cache_savings\" \"$(rst)\"",
      defines |-> {}, invokes |-> {"cache_clr", "rst"}],
     [atom |-> "\"$(context_clr)\" \"$context_usage_pct\" \"$(rst)\"",
      defines |-> {}, invokes |-> {"context_clr", "rst"}],
     [atom |-> "\"$(cost_clr)\" \"$cost_usd\"",
      defines |-> {}, invokes |-> {"cost_clr"}],
     [atom |-> "\"$(cost_clr)\" \"$formatted_cost\"",
      defines |-> {}, invokes |-> {"cost_clr"}],
     [atom |-> "\"$(cpu_clr)\" \"$cpu_percent\" \"$(rst)\"",
      defines |-> {}, invokes |-> {"cpu_clr", "rst"}],
     [atom |-> "\"$(dir_clr)\" \"$cwd\" \"$(rst)\"",
      defines |-> {}, invokes |-> {"dir_clr", "rst"}],
     [atom |-> "\"$(git_clr)\" \"$git_branch\" \"$(rst)\"",
      defines |-> {}, invokes |-> {"git_clr", "rst"}],
     [atom |-> "\"$(load_clr)\" \"$load_1min\" ...",
      defines |-> {}, invokes |-> {"load_clr", "rst"}],
     [atom |-> "\"$(mem_clr)\" \"$mem_used_gb\" \"$mem_total_gb\" ...",
      defines |-> {}, invokes |-> {"mem_clr", "rst"}],
     [atom |-> "\"$(model_clr)\" \"$model_name\" \"$(rst)\"",
      defines |-> {}, invokes |-> {"model_clr", "rst"}],
     [atom |-> "\"$(proj_clr)\" \"$proj_cost_txt\" \"$(rst)\"",
      defines |-> {}, invokes |-> {"proj_clr", "rst"}],
     [atom |-> "\"$(proj_clr)\" \"$proj_time_txt\" \"$(rst)\"",
      defines |-> {}, invokes |-> {"proj_clr", "rst"}],
     [atom |-> "\"$(rst)\"",
      defines |-> {}, invokes |-> {"rst"}],
     [atom |-> "\"$(sess_clr)\" \"$formatted_time\" \"$(rst)\"",
      defines |-> {}, invokes |-> {"sess_clr", "rst"}],
     [atom |-> "\"$(sess_clr)\" \"$sess_bar\" \"$(rst)\"",
      defines |-> {}, invokes |-> {"sess_clr", "rst"}],
     [atom |-> "\"$(sess_clr)\" \"$sess_txt\" \"$(rst)\"",
      defines |-> {}, invokes |-> {"sess_clr", "rst"}],
     [atom |-> "\"$(usage_clr)\" \"$formatted_tpm\" \"$unit\" \"$(rst)\"",
      defines |-> {}, invokes |-> {"usage_clr", "rst"}],
     [atom |-> "\"$(usage_clr)\" \"$tot_tokens\" \"$(rst)\"",
      defines |-> {}, invokes |-> {"usage_clr", "rst"}],
     [atom |-> "\"$(usage_clr)\" \"$tot_tokens\" \"$tpm\" \"$(rst)\"",
      defines |-> {}, invokes |-> {"usage_clr", "rst"}]
    }

Defined(s) ==
    UNION {e.defines : e \in {f \in ShellFunctions : Positions(s, {f.atom}) # {}}}

Invoked(s) ==
    UNION {e.invokes : e \in {f \in ShellFunctions : Positions(s, {f.atom}) # {}}}

\* C25: for every configuration, with or without colors, every shell
\* function that the generated script invokes is defined in that script.
C25_InvokedFunctionsDefined ==
    stage = "shown" => Invoked(first.script) \subseteq Defined(first.script)

\* with colors enabled every invoked function is defined
InvokedDefinedWithColors ==
    stage = "shown" /\ first.config.colors
        => Invoked(first.script) \subseteq Defined(first.script)

\* the lines of the emitted script that read $input
InputReaders ==
    {"{ echo \"[$TIMESTAMP] Status line triggered with input:\"; (echo \"$input\" | jq . 2>/dev/null) || echo \"$input\"; echo \"---\"; } >> \"$LOG_FILE\" 2>/dev/null",
     "  eval \"$(echo \"$input\" | jq -r '{"}

\* C26: in every generated script the statement input=$(cat) is there once
\* and comes before every statement that reads $input: the logging scaffold
\* of a configuration with logging, and the JSON data extraction.
C26_InputReadBeforeUse ==
    stage = "shown" =>
        /\ One(first.script, {"input=$(cat)"})
        /\ Before(Positions(first.script, {"input=$(cat)"}),
                  Positions(first.script, InputReaders))

\* without logging the only reader is the data extraction, which follows
\* input=$(cat)
InputReadBeforeUseWithoutLogging ==
    stage = "shown" /\ ~first.config.logging =>
        /\ One(first.script, {"input=$(cat)"})
        /\ Before(Positions(first.script, {"input=$(cat)"}),
                  Positions(first.script, InputReaders))
        /\ (hasDirectory(first.config) \/ hasModel(first.config))
               => Positions(first.script, InputReaders) # {}

\* the variables that a line of the usage query code sets from the ccusage
\* data (a key of the jq query becomes a variable through eval) or computes;
\* the first line of the block, which sets every variable to the empty
\* string, gives no value
QueryAssigns ==
    {[atom |-> " cost_usd:", names |-> {"cost_usd"}],
     [atom |-> " tot_tokens:", names |-> {"tot_tokens"}],
     [atom |-> " tpm:", names |-> {"tpm"}],
     [atom |-> " reset_time_str: start_time_str:",
      names |-> {"reset_time_str", "start_time_str"}],
     [atom |-> " cache_creation_tokens: ...",
      names |-> {"cache_creation_tokens", "cache_read_tokens", "input_tokens",
                 "output_tokens"}],
     [atom |-> " proj_total_cost: ...",
      names |-> {"proj_total_tokens", "proj_total_cost", "proj_remaining_mins",
                 "entries_count"}],
     [atom |-> "  sess_txt=...", names |-> {"sess_txt"}],
     [atom |-> "  sess_bar=...", names |-> {"sess_bar"}],
     [atom |-> "  # cache efficiency and context usage",
      names |-> {"cache_efficiency", "cache_savings", "context_usage_pct"}],
     [atom |-> "  # projections", names |-> {"proj_cost_txt", "proj_time_txt"}],
     [atom |-> "  # efficiency alerts", names |-> {"efficiency_alert"}]}

\* a key of the jq query that is written as a word of its own
JqKeys(t) == {t[i] : i \in {j \in 1..(Len(t) - 1) : IsWord(t[j]) /\ t[j + 1] = ":"}}

AssignedNames(t) ==
    JqKeys(t)
    \cup UNION {e.names : e \in {f \in QueryAssigns : Positions(t, {f.atom}) # {}}}

\* the tests of the usage display blocks and the variable each one reads
DisplayTests ==
    {[atom |-> "$sess_txt", name |-> "sess_txt"],
     [atom |-> "$cost_usd", name |-> "cost_usd"],
     [atom |-> "$proj_total_cost", name |-> "proj_total_cost"],
     [atom |-> "$cost_ph", name |-> "cost_ph"],
     [atom |-> "$tot_tokens", name |-> "tot_tokens"],
     [atom |-> "$tpm", name |-> "tpm"],
     [atom |-> "$cache_efficiency", name |-> "cache_efficiency"],
     [atom |-> "$cache_savings", name |-> "cache_savings"],
     [atom |-> "$proj_cost_txt", name |-> "proj_cost_txt"],
     [atom |-> "$proj_time_txt", name |-> "proj_time_txt"],
     [atom |-> "$context_usage_pct", name |-> "context_usage_pct"],
     [atom |-> "$efficiency_alert", name |-> "efficiency_alert"]}

\* the test at position i is joined to a condition that is literally false
GuardedOff(d, i) ==
    \/ i + 2 <= Len(d) /\ d[i + 1] = "&&" /\ d[i + 2] = "\"false\" == \"true\""
    \/ i + 3 <= Len(d) /\ d[i + 1] = "]]" /\ d[i + 2] = "&&" /\ d[i + 3] = "false"

\* the variables whose value decides whether a usage field is displayed
DisplayReads(d) ==
    {e.name : e \in {f \in DisplayTests :
                        \E i \in Positions(d, {f.atom}) : ~GuardedOff(d, i)}}

\* C30: the text of the usage query code before optimization assigns every
\* variable that the usage display blocks read, under the name the display
\* reads (for example cost_ph), so the text before optimization displays the
\* same fields as the optimized text.
C30_RawTextAssignsDisplayedNames ==
    stage = "shown" /\ first.query # <<>> =>
        /\ DisplayReads(second) \subseteq AssignedNames(first.query)
        /\ DisplayReads(second) \cap AssignedNames(first.query)
              = DisplayReads(second) \cap AssignedNames(optimizeBashCode(first.query))

\* without the cost block every variable that the display reads is assigned
DisplayedNamesAssignedWithoutCost ==
    stage = "shown" /\ first.query # <<>> /\ ~Has(first.config, "usage") =>
        DisplayReads(second) \subseteq AssignedNames(first.query)

\* a display that reads variables of the query code is reached
SomeDisplayedNamesAssigned ==
    /\ stage = "shown"
    /\ first.config.features = <<"session", "tokens", "burnrate">>
    /\ DisplayReads(second) = {"sess_txt", "tot_tokens", "tpm"}

----------------------------------------------------------------------------
(* The refresh interval, from the wizard to the emitted script              *)
(* (cli/prompts.ts collectConfiguration, generateBashStatusline,            *)
(* generateSystemBashCode) and runs of the emitted cache check, one at a    *)
(* time.  Times are seconds.                                                *)

MaxWizardSeconds == 3

MaxTtlClock == 5

\* the answers that the validate function of the prompt accepts (1..60)
WizardAnswers == 1..MaxWizardSeconds

\* parseInt(systemConfig.refreshRate) * 1000
wizardRefreshRate(answer) == answer * 1000

\* the configuration that the wizard returns for the answer
WizardConfig(answer) ==
    [features |-> <<"cpu">>, theme |-> "detailed", colors |-> FALSE,
     ccusageIntegration |-> FALSE, customEmojis |-> FALSE, logging |-> FALSE,
     refreshRate |-> wizardRefreshRate(answer)]

\* the number that the emitted script assigns to sys_ttl
emittedTtl(config) ==
    LET script == generateSystemBashCode(systemConfig(config), config.colors)
        i == IndexOf(script, "sys_ttl=")
    IN  CHOOSE k \in 0..60000 : ToString(k) = script[i + 1]

NoUse == [at |-> 0, reused |-> FALSE, age |-> 0]

InitTtl ==
    /\ OptIdle
    /\ GenIdle
    /\ FileIdle
    /\ RunIdle
    /\ RateIdle
    /\ ValidationIdle
    /\ RetryIdle
    /\ InstallIdle
    /\ sys = [phase |-> "prompt", seconds |-> 0, refreshRate |-> 0, ttl |-> 0,
              clock |-> 0, cache_time |-> -1, last |-> NoUse]

\* the user answers the refresh rate prompt
Answer(answer) ==
    /\ sys.phase = "prompt"
    /\ sys' = [sys EXCEPT !.phase = "configured", !.seconds = answer,
                          !.refreshRate = wizardRefreshRate(answer)]
    /\ UNCHANGED notSys

\* validateConfig accepts the configuration and the script is generated
Emit ==
    /\ sys.phase = "configured"
    /\ ~Outside(sys.refreshRate, 100, 60000)
    /\ sys' = [sys EXCEPT !.phase = "emitted",
                          !.ttl = emittedTtl(WizardConfig(sys.seconds))]
    /\ UNCHANGED notSys

TtlTick ==
    /\ sys.phase = "emitted"
    /\ sys.clock < MaxTtlClock
    /\ sys' = [sys EXCEPT !.clock = sys.clock + 1]
    /\ UNCHANGED notSys

\* one run of the script: the cache file is used when it exists and
\* now - cache_time < sys_ttl, and written anew otherwise
TtlInvoke ==
    /\ sys.phase = "emitted"
    /\ IF sys.cache_time # -1 /\ sys.clock - sys.cache_time < sys.ttl
       THEN sys' = [sys EXCEPT !.last = [at |-> sys.clock, reused |-> TRUE,
                                        age |-> sys.clock - sys.cache_time]]
       ELSE sys' = [sys EXCEPT !.cache_time = sys.clock,
                              !.last = [at |-> sys.clock, reused |-> FALSE,
                                        age |-> 0]]
    /\ UNCHANGED notSys

NextTtl ==
    \/ \E answer \in WizardAnswers : Answer(answer)
    \/ Emit
    \/ TtlTick
    \/ TtlInvoke

SpecTtl == InitTtl /\ [][NextTtl]_vars

\* C27: the freshness window of the emitted system-metrics cache is the
\* refresh interval entered in the wizard: for an answer of N seconds the
\* script has sys_ttl = N and reuses cached metrics only while they are less
\* than N seconds old.
C27_WindowEqualsInterval ==
    sys.phase = "emitted" =>
        /\ sys.ttl = sys.seconds
        /\ sys.last.reused => sys.last.age < sys.seconds

----------------------------------------------------------------------------
(* initCommand (cli/commands.ts): the script is written, then               *)
(* withRetry(() => updateSettingsJson(dir, name), { maxRetries: 2,          *)
(* baseDelay: 500 }) runs with the default retryIf, and the catch block     *)
(* prints the manual configuration.                                         *)

InitCommandRetries == 2

\* one round of the loop of withRetry after operation() has rejected: the
\* catch block and, when the error is retried, sleep and the next attempt
afterRejection(r, message) ==
    LET caught == afterFailure(r, message)
    IN  IF caught.phase = "sleeping"
        THEN [caught EXCEPT !.attempt = caught.attempt + 1, !.phase = "running"]
        ELSE caught

InitInitCommand ==
    /\ OptIdle
    /\ GenIdle
    /\ FileIdle
    /\ RunIdle
    /\ RateIdle
    /\ ValidationIdle
    /\ SysIdle
    /\ retry = [NoRetry EXCEPT !.phase = "running", !.maxRetries = InitCommandRetries,
                               !.retryIf = "default"]
    /\ \E doInstall \in BOOLEAN :
       \E scriptName \in ScriptNames :
       \E file \in SettingsFiles :
       \E dir \in BOOLEAN :
          /\ file.state # "missing" => dir
          /\ install = [NoInstall EXCEPT !.phase = "start", !.entry = "initCommand",
                                         !.doInstall = doInstall,
                                         !.scriptName = scriptName, !.dir = dir,
                                         !.before = file, !.settings = file]

\* one round of withRetry: updateSettingsJson is called once
SettingsRound(writeOk) ==
    /\ install.phase = "scriptWritten"
    /\ install.doInstall
    /\ retry.phase = "running"
    /\ retry.attempt <= retry.maxRetries
    /\ LET u == updateSettingsJson(install.settings, install.scriptName, writeOk)
       IN  /\ install' = [install EXCEPT !.log = install.log \o u.log,
                                         !.settings = u.file,
                                         !.result = u.result]
           /\ retry' = IF u.result = "ok" THEN afterSuccess(retry, "success")
                       ELSE afterRejection(retry, <<u.result>>)
    /\ UNCHANGED <<optVars, genVars, fileVars, runVars, rate, validation, sys>>

\* withRetry has returned or thrown: the success message, or the manual
\* configuration instructions of the catch block
Report ==
    /\ install.phase = "scriptWritten"
    /\ retry.phase \in {"resolved", "rejected"}
    /\ install' = [install EXCEPT
                      !.phase = IF retry.phase = "resolved" THEN "done" ELSE "manual"]
    /\ UNCHANGED notInstall

NextInitCommand ==
    \/ \E ok \in BOOLEAN : Mkdir(ok)
    \/ \E ok \in BOOLEAN : WriteScript(ok)
    \/ \E writeOk \in BOOLEAN : SettingsRound(writeOk)
    \/ Report
    \/ SkipSettings

SpecInitCommand == InitInitCommand /\ [][NextInitCommand]_vars

\* C29: when updating settings.json fails during initCommand, the update is
\* attempted again, up to 2 retries: the manual-configuration instructions
\* are shown only after 3 calls of updateSettingsJson.
C29_SettingsRetried ==
    /\ retry.calls <= InitCommandRetries + 1
    /\ install.phase = "manual" => retry.calls = InitCommandRetries + 1

====
